---- MODULE Spec2Model ----
(***************************************************************************)
(* Model of the tunnelhook per-endpoint relay: the EndpointDO Durable      *)
(* Object (WebSocket registry, presence, webhook fan-out, delivery-report  *)
(* correlation) together with the Worker handlers that feed it             *)
(* (handleWebhook / broadcastToMachines / handleWebSocketUpgrade) and the  *)
(* machine table of the record store.  One endpoint, one owner.            *)
(***************************************************************************)
EXTENDS Integers, Sequences, FiniteSets, TLC

\* ------------------------------------------------------------------ bounds
MaxSockets  == 3    \* server sockets ever accepted by the actor
MaxCallbacks == 2   \* close/error callbacks delivered to the actor
MaxSteps    == 6    \* handler invocations with an effect in one behaviour
MaxEvents   == 2    \* webhooks captured
MaxReports  == 1    \* delivery-report messages received
MaxMachines == 2    \* machine rows registered in the store
MaxDead     == 1    \* held sockets whose peer is gone at the same time
MaxAttempts == 4    \* WebSockets one viewer hook creates
MaxWebhooks == 2    \* webhook messages one machine client receives
MaxUpgrades == 1    \* upgrade requests the Worker's gate lets through
MaxRows     == 3    \* event rows of the endpoint being listed
MaxTime     == 2    \* distinct creation times of those rows
MaxLimit    == 2    \* page sizes asked for

\* --------------------------------------------------------------- constants
\* JavaScript undefined / null / absent query parameter
Undefined == "undefined"

\* names accepted by machines.register (z.string().min(1))
RegisterNames == {"Box"}

\* forward destinations given to machines.register by the dashboard
RegisterUrls == {"u1"}

\* values of the machineName query parameter of the upgrade URL
NameParams == {Undefined, "", "Box"}

\* setTimeout(() => connect(), 3000) of the viewer hook, in milliseconds
ReconnectDelay == 3000

\* values of the role query parameter of the upgrade URL
RoleParams == {"machine", "viewer"}

Methods == {"POST"}

\* kinds of frames a client can put on its socket
MessageKinds == {"binary", "badjson", "null", "other", "report"}

ReportStatuses == {"delivered", "failed"}

VARIABLES
    machine,      \* store: machine rows in insertion order
    delivery,     \* store: delivery rows
    nEvents,      \* events captured so far (event ids minted)
    nDeliveries,  \* delivery ids minted so far
    pending,      \* POST /broadcast requests issued by the Worker, not yet handled by the DO
    attachment,   \* attachment of every server socket ever accepted (index = socket)
    webSockets,   \* ctx.getWebSockets(): sockets the actor currently holds
    sent,         \* per socket: messages the actor issued on it (ws.send calls), in order
    closed,       \* sockets whose webSocketClose callback has run
    errored,      \* sockets whose webSocketError callback has run
    nReports,     \* delivery-report frames handled so far
    responses,    \* bodies of the 200 responses of POST /broadcast, per event
    nSteps,       \* handler invocations so far
    heldAtOffline,\* sockets still returned by ctx.getWebSockets() while their own
                  \* close/error callback iterated it for the offline broadcast
    dead,         \* held sockets whose peer is gone: ws.send on them throws
    caught,       \* held sockets on which a ws.send threw into a catch block
    thrown,       \* sockets whose webSocketMessage invocation ended in an exception
    \* --- CLI client processes (direct mode: tunnelhook --endpoint --forward)
    proc,         \* per process: where it is, its base name and forward URL, the
                  \* machine list it fetched, the machine it resolved, its socket
    maxLive,      \* per base name: most processes of that name alive at once
    \* --- dashboard: one useViewerWebSocket hook
    hookEffect,   \* "idle" before its effect ran, "mounted", "cleaned" after cleanup
    sockets,      \* readyState of every WebSocket connect() created, in order
    wsRef,        \* wsRef.current: index into sockets, 0 for null
    reconnectTimeoutRef, \* reconnectTimeoutRef.current: index into timers, 0 for null
    timers,       \* every setTimeout of the hook: delay, state, attempt it precedes
    connected,    \* the hook's connected state
    attempts,     \* reconnect attempts made since the hook last reached connected
    \* --- CLI: one MonitorScreen
    monitorEffect,    \* "idle" before its effect ran, "mounted", "cleaned"
    monitorWs,        \* readyState of the effect's WebSocket, "none" before it exists
    monitorSockets,   \* WebSockets MonitorScreen has created
    monitorOpened,    \* whether its socket has reached open
    monitorConnected, \* its connected state
    wsStatus,         \* its wsStatus state
    received,         \* webhook messages received, in order
    results,          \* per received message: result of its forward, or Pending
    forwarded,        \* fetch calls to the forward URL: the ids in their headers
    reports,          \* ws.send calls: the delivery reports, in order
    persisted,        \* reportDeliveryResult calls, in order
    events,           \* its events state, newest first
    \* --- store: the delivery table's response columns
    deliveryResponse, \* per delivery id that has them: response_status
    \* --- history kept for the connect-during-capture race
    joinedDuring,     \* per socket: the events whose broadcast request was on
                      \* its way to the actor when the socket was accepted
    \* --- the client ends of the actor's sockets
    inbox,            \* per socket: the messages its client's message listener
                      \* has been called with, in order
    issued,           \* per machine socket: the calls its client has made to
                      \* report forwards (ws.send, reportDeliveryResult), in
                      \* order, each in flight, done or failed
    \* --- several endpoints: the ENDPOINT_DO namespace and the Worker's routing
    objects,          \* per Durable Object id in use: the actor's attachments,
                      \* held sockets and send logs
    routed,           \* every getEndpointDO call: the endpoint id and the object
    epMachine,        \* store: machine rows with their endpoint, insertion order
    epPending,        \* POST /broadcast requests on their way to an object
    registered,       \* every accepted connection: the endpoint of its upgrade
                      \* URL, the object that accepted it, its socket there
    epEvents,         \* events captured so far, all endpoints
    epDeliveries,     \* delivery ids minted so far, all endpoints
    epReports,        \* delivery-report frames handled so far, all objects
    epClosed,         \* connections whose webSocketClose callback has run
    epSteps,          \* handler invocations so far
    \* --- the Worker's RPC into the actor
    connectedMachines,\* what the last getConnectedMachines() call returned
    \* --- the Worker's answers to upgrade requests
    upgradeResponse,  \* the status the last upgrade request was answered with
    \* --- capture: handleWebhook and its deferred processing
    eventRows,        \* store: event rows, with what the static forward wrote
    answers,          \* responses given to webhook senders
    tasks,            \* processBroadcastAndForward calls handed to waitUntil
    \* --- events.list, called page by page
    createdAt,        \* store: creation time of every event row of the endpoint
    limit,            \* input.limit of the caller
    cursor,           \* input.cursor of the next call: <<>> for undefined
    listed,           \* the items of the pages returned so far, in order
    listDone          \* the last page came with nextCursor undefined

relayVars == <<machine, delivery, nEvents, nDeliveries, pending, attachment,
               webSockets, sent, closed, errored, nReports, responses, nSteps,
               heldAtOffline, dead, caught, thrown>>

resolverVars == <<proc, maxLive>>

hookVars == <<hookEffect, sockets, wsRef, reconnectTimeoutRef, timers,
              connected, attempts>>

monitorVars == <<monitorEffect, monitorWs, monitorSockets, monitorOpened,
                 monitorConnected, wsStatus, received, results, forwarded,
                 reports, persisted, events>>

clientVars == <<resolverVars, hookVars, monitorVars>>

storeVars == <<deliveryResponse>>

raceVars == <<joinedDuring>>

wireVars == <<inbox>>

liveVars == <<issued>>

endpointVars == <<objects, routed, epMachine, epPending, registered, epEvents,
                  epDeliveries, epReports, epClosed, epSteps>>

rpcVars == <<connectedMachines>>

gateVars == <<upgradeResponse>>

captureVars == <<eventRows, answers, tasks>>

listVars == <<createdAt, limit, cursor, listed, listDone>>

extraVars == <<storeVars, raceVars, wireVars, liveVars, endpointVars, rpcVars,
               gateVars, captureVars, listVars>>

vars == <<relayVars, clientVars, extraVars>>

\* ------------------------------------------------------------ JS helpers
\* truthiness of an optional string: neither undefined/null nor ""
Truthy(x) == x # Undefined /\ x # ""

\* a ?? b
Coalesce(a, b) == IF a # Undefined THEN a ELSE b

EventIdOf(n) == "e" \o ToString(n)
DeliveryIdOf(n) == "d" \o ToString(n)
MachineIdOf(n) == "m" \o ToString(n)

\* ------------------------------------------------------- message shapes
MachineStatusMessage(machineId, machineName, status) ==
    [type |-> "machine-status", machineId |-> machineId,
     machineName |-> machineName, status |-> status]

WebhookEventMessage(eventId, deliveryId, method) ==
    [type |-> "webhook", eventId |-> eventId, deliveryId |-> deliveryId,
     method |-> method]

\* variant: the result built with the event id in the deliveryId field
DeliveryResultMessageSwapped(att, parsed) ==
    [type |-> "delivery-result",
     eventId |-> parsed.eventId,
     deliveryId |-> parsed.eventId,
     machineId |-> Coalesce(att.machineId, ""),
     machineName |-> Coalesce(att.machineName, ""),
     status |-> parsed.status,
     responseStatus |-> parsed.responseStatus]

DeliveryResultMessage(att, parsed) ==
    [type |-> "delivery-result",
     eventId |-> parsed.eventId,
     deliveryId |-> parsed.deliveryId,
     machineId |-> Coalesce(att.machineId, ""),
     machineName |-> Coalesce(att.machineName, ""),
     status |-> parsed.status,
     responseStatus |-> parsed.responseStatus]

\* ------------------------------------------------------ EndpointDO helpers
getMachineWebSockets(ws, att) == {s \in ws : att[s].role = "machine"}

\* variant: the filter without its test of the role
getViewerWebSocketsAnyRole(ws, att) == ws

getViewerWebSockets(ws, att) == {s \in ws : att[s].role = "viewer"}

\* variant: sends without try/catch, the first throw ends the loop
LoopReachesUntilThrow(targets) ==
    {s \in targets : \A d \in targets \cap dead : s <= d}

\* the sockets of a send loop over targets on which ws.send is called: every
\* send sits in its own try/catch, so a throw on a dead socket is swallowed
\* and the loop goes on with the next socket
LoopReaches(targets) == targets

\* the catch blocks a send loop over targets runs into
Swallowed(targets) == caught' = caught \cup (LoopReaches(targets) \cap dead)

\* variant: the loop returning after its first send
broadcastToViewersFirst(snt, ws, att, msg) ==
    [s \in DOMAIN snt |->
        IF /\ s \in getViewerWebSockets(ws, att)
           /\ \A t \in getViewerWebSockets(ws, att) : s <= t
        THEN Append(snt[s], msg) ELSE snt[s]]

broadcastToViewers(snt, ws, att, msg) ==
    [s \in DOMAIN snt |->
        IF s \in LoopReaches(getViewerWebSockets(ws, att))
        THEN Append(snt[s], msg) ELSE snt[s]]

\* variant: the loop without its "if (ws === except) continue" check
broadcastToMachinesNoExcept(snt, ws, att, msg, except) ==
    [s \in DOMAIN snt |->
        IF s \in getMachineWebSockets(ws, att)
        THEN Append(snt[s], msg) ELSE snt[s]]

broadcastToMachines(snt, ws, att, msg, except) ==
    [s \in DOMAIN snt |->
        IF s \in LoopReaches(getMachineWebSockets(ws, att) \ {except})
        THEN Append(snt[s], msg) ELSE snt[s]]

getConnectedMachines(ws, att) ==
    {[machineId |-> att[s].machineId, machineName |-> att[s].machineName] :
        s \in {t \in getMachineWebSockets(ws, att) :
                 Truthy(att[t].machineId) /\ Truthy(att[t].machineName)}}

\* every handler invocation that has an effect counts against the length bound
Step == nSteps < MaxSteps /\ nSteps' = nSteps + 1

NoDisconnect == UNCHANGED heldAtOffline

\* no socket dies and no handler throws in this step
NoFailure == UNCHANGED <<dead, thrown>>

\* ------------------------------------------------------------------ store
MachineIds == {machine[i].id : i \in 1..Len(machine)}

MachineRow(machineId) ==
    machine[CHOOSE i \in 1..Len(machine) : machine[i].id = machineId]

\* machines.register
register(name, forwardUrl) ==
    /\ Step
    /\ NoDisconnect
    /\ NoFailure
    /\ UNCHANGED caught
    /\ Len(machine) < MaxMachines
    /\ machine' = Append(machine, [id |-> MachineIdOf(Len(machine) + 1),
                                   name |-> name, forwardUrl |-> forwardUrl,
                                   status |-> "offline"])
    /\ UNCHANGED <<delivery, nEvents, nDeliveries, pending, attachment,
                   webSockets, sent, closed, errored, nReports, responses>>

\* machines.update: only the fields given in the input are written
update(id, name, forwardUrl) ==
    /\ Step
    /\ NoDisconnect
    /\ NoFailure
    /\ UNCHANGED caught
    /\ id \in MachineIds
    /\ machine' = [i \in 1..Len(machine) |->
                     IF machine[i].id = id
                     THEN [machine[i] EXCEPT
                             !.name = Coalesce(name, @),
                             !.forwardUrl = Coalesce(forwardUrl, @)]
                     ELSE machine[i]]
    /\ UNCHANGED <<delivery, nEvents, nDeliveries, pending, attachment,
                   webSockets, sent, closed, errored, nReports, responses>>

\* ---------------------------------------------------- upgrade (Worker + DO)
\* Worker: machineName = machineName ?? m.name
ResolvedMachineName(nameParam, row) == Coalesce(nameParam, row.name)

\* Worker: if (machineName) doUrl.searchParams.set("machineName", ...);
\* DO: url.searchParams.get("machineName") ?? undefined
ForwardedParam(value) == IF Truthy(value) THEN value ELSE Undefined

\* DO: role === "machine" && machineId && machineName
AnnouncesOnline(att) ==
    att.role = "machine" /\ Truthy(att.machineId) /\ Truthy(att.machineName)

\* DO: snapshot of connected machines for a new viewer, in socket order
SnapshotMessages(ws, att) ==
    LET F[i \in 0..Len(att)] ==
            IF i = 0 THEN <<>>
            ELSE IF i \in getMachineWebSockets(ws, att)
                    /\ Truthy(att[i].machineId) /\ Truthy(att[i].machineName)
                 THEN Append(F[i - 1],
                             MachineStatusMessage(att[i].machineId,
                                                  att[i].machineName, "online"))
                 ELSE F[i - 1]
    IN F[Len(att)]

\* variant: the snapshot sent with the viewer broadcast
SendSnapshotToViewers(snt, ws, att) ==
    LET msgs == SnapshotMessages(ws, att)
    IN Append([s \in DOMAIN snt |->
                  IF s \in getViewerWebSockets(ws, att)
                  THEN snt[s] \o msgs ELSE snt[s]],
              msgs)

\* DO: for (const machine of this.getConnectedMachines()) server.send(...):
\* the snapshot goes out on the new socket, the log of which starts with it
SendSnapshot(snt, ws, att) == Append(snt, SnapshotMessages(ws, att))

\* DO handleWebSocketUpgrade: accept, attach, announce or snapshot
DOUpgrade(att) ==
    LET server == Len(attachment) + 1
        accepted == webSockets \cup {server}
        atts == Append(attachment, att)
    IN /\ attachment' = atts
       /\ webSockets' = accepted
       /\ Swallowed(IF AnnouncesOnline(att)
                    THEN getViewerWebSockets(accepted, atts) ELSE {})
       /\ sent' = IF AnnouncesOnline(att)
                  THEN Append(broadcastToViewers(sent, accepted, atts,
                                  MachineStatusMessage(att.machineId,
                                                       att.machineName, "online")),
                              <<>>)
                  ELSE IF att.role = "viewer"
                  THEN SendSnapshot(sent, accepted, atts)
                  ELSE Append(sent, <<>>)

\* Worker handleWebSocketUpgrade for an authenticated owner of the endpoint
handleWebSocketUpgrade(role, machineIdParam, machineNameParam) ==
    /\ Step
    /\ NoDisconnect
    /\ NoFailure
    /\ Len(attachment) < MaxSockets
    /\ IF role = "machine"
       THEN /\ machineIdParam \in MachineIds
            /\ machine' = [i \in 1..Len(machine) |->
                             IF machine[i].id = machineIdParam
                             THEN [machine[i] EXCEPT !.status = "online"]
                             ELSE machine[i]]
            /\ DOUpgrade([role |-> "machine",
                          machineId |-> ForwardedParam(machineIdParam),
                          machineName |-> ForwardedParam(
                              ResolvedMachineName(machineNameParam,
                                                  MachineRow(machineIdParam)))])
       ELSE /\ machine' = machine
            /\ DOUpgrade([role |-> "viewer", machineId |-> Undefined,
                          machineName |-> Undefined])
    /\ UNCHANGED <<delivery, nEvents, nDeliveries, pending, closed, errored,
                   nReports, responses>>

\* ------------------------------------------------- capture (Worker side)
\* broadcastToMachines: one delivery row per machine row, fresh ids
\* variant: ids numbered per batch instead of drawn fresh
DeliveryRecordIdPerBatch(base, i) == DeliveryIdOf(i)

DeliveryRecordId(base, i) == DeliveryIdOf(base + i)

DeliveryRecords(rows, base) ==
    [i \in 1..Len(rows) |-> [id |-> DeliveryRecordId(base, i), machineId |-> rows[i].id]]

\* deliveriesMap[d.machineId] = d.id, later records overwrite earlier ones
DeliveriesMap(records) ==
    [mid \in {records[i].machineId : i \in 1..Len(records)} |->
        LET last == CHOOSE i \in 1..Len(records) :
                        /\ records[i].machineId = mid
                        /\ \A j \in 1..Len(records) :
                              records[j].machineId = mid => j <= i
        IN records[last].id]

\* handleWebhook on the enabled endpoint, then broadcastToMachines up to the
\* point where the POST /broadcast request is issued to the actor
handleWebhook(method) ==
    /\ Step
    /\ NoDisconnect
    /\ NoFailure
    /\ UNCHANGED caught
    /\ nEvents < MaxEvents
    /\ LET eventId == EventIdOf(nEvents + 1)
           rows == machine
           records == DeliveryRecords(rows, nDeliveries)
       IN /\ nEvents' = nEvents + 1
          /\ IF Len(rows) = 0
             THEN UNCHANGED <<delivery, nDeliveries, pending>>
             ELSE /\ delivery' = delivery \cup
                        {[id |-> records[i].id, eventId |-> eventId,
                          machineId |-> records[i].machineId,
                          status |-> "pending"] : i \in 1..Len(records)}
                  /\ nDeliveries' = nDeliveries + Len(records)
                  /\ pending' = pending \cup
                        {[eventId |-> eventId, method |-> method,
                          deliveries |-> DeliveriesMap(records)]}
    /\ UNCHANGED <<machine, attachment, webSockets, sent, closed, errored,
                   nReports, responses>>

\* ------------------------------------------------- fan-out (DO side)
\* payload.deliveries[attachment.machineId]
DeliveryFor(deliveries, machineId) ==
    IF machineId \in DOMAIN deliveries THEN deliveries[machineId] ELSE Undefined

\* variant: the loop without its "if (!deliveryId) continue" check
WebhookTargetsNoMapCheck(ws, att, deliveries) ==
    {s \in getMachineWebSockets(ws, att) : Truthy(att[s].machineId)}

\* the sockets the loop reaches ws.send on
WebhookTargets(ws, att, deliveries) ==
    {s \in getMachineWebSockets(ws, att) :
        /\ Truthy(att[s].machineId)
        /\ Truthy(DeliveryFor(deliveries, att[s].machineId))}

\* Response.json({ sent: machines.length })
BroadcastSentCount(ws, att, deliveries) ==
    Cardinality(getMachineWebSockets(ws, att))

\* variant: a catch block that drops the socket its send threw on
HeldAfterSendsPruned(ws, targets) == ws \ (targets \cap dead)

\* ctx.getWebSockets() after a send loop over targets: the catch block of a
\* throwing send is empty, it neither closes nor forgets the socket
HeldAfterSends(ws, targets) == ws

handleBroadcast(payload) ==
    /\ Step
    /\ NoDisconnect
    /\ NoFailure
    /\ payload \in pending
    /\ pending' = pending \ {payload}
    /\ LET targets == LoopReaches(WebhookTargets(webSockets, attachment,
                                                 payload.deliveries))
       IN /\ Swallowed(WebhookTargets(webSockets, attachment,
                                       payload.deliveries))
          /\ sent' = [s \in DOMAIN sent |->
                        IF s \in targets
                        THEN Append(sent[s],
                                 WebhookEventMessage(payload.eventId,
                                     DeliveryFor(payload.deliveries,
                                                 attachment[s].machineId),
                                     payload.method))
                        ELSE sent[s]]
          /\ responses' = responses \cup
                 {[eventId |-> payload.eventId,
                   sent |-> BroadcastSentCount(webSockets, attachment,
                                               payload.deliveries)]}
          /\ webSockets' = HeldAfterSends(webSockets, targets)
    /\ UNCHANGED <<machine, delivery, nEvents, nDeliveries, attachment,
                   closed, errored, nReports>>

\* ------------------------------------------------- inbound frames (DO side)
\* parsed.type === "delivery-report"
IsDeliveryReport(frame) == frame.kind = "report"

\* frames a client may put on socket ws: a report answering a webhook message
\* it received, a report with ids the actor never issued, or a malformed frame
Reports(ws) ==
    {[kind |-> "report", eventId |-> e, deliveryId |-> d, status |-> st,
      responseStatus |-> IF st = "delivered" THEN "200" ELSE Undefined] :
        e \in {"e?"}, d \in {"d?"}, st \in ReportStatuses}
    \cup
    {[kind |-> "report", eventId |-> sent[ws][i].eventId,
      deliveryId |-> sent[ws][i].deliveryId, status |-> st,
      responseStatus |-> IF st = "delivered" THEN "200" ELSE Undefined] :
        i \in {j \in 1..Len(sent[ws]) : sent[ws][j].type = "webhook"},
        st \in ReportStatuses}

\* {"type":"delivery-report"}: the type alone, every other field absent
PartialReports ==
    {[kind |-> "report", eventId |-> Undefined, deliveryId |-> Undefined,
      status |-> Undefined, responseStatus |-> Undefined]}

Frames(ws) ==
    Reports(ws) \cup PartialReports
       \cup {[kind |-> k] : k \in MessageKinds \ {"report"}}

\* parsed.type on the value JSON.parse returned: a TypeError when it is null
ReadingTypeThrows(frame) == frame.kind = "null"

webSocketMessage(ws, frame) ==
    /\ NoDisconnect
    /\ UNCHANGED dead
    /\ ws \in webSockets
    /\ IF frame.kind \in {"binary", "badjson"}
       THEN UNCHANGED <<sent, nReports, nSteps, thrown, caught>>
       ELSE IF ReadingTypeThrows(frame)
       THEN /\ Step
            /\ ws \notin thrown
            /\ thrown' = thrown \cup {ws}
            /\ UNCHANGED <<sent, nReports, caught>>
       ELSE IF IsDeliveryReport(frame)
       THEN /\ Step
            /\ nReports < MaxReports
            /\ nReports' = nReports + 1
            /\ LET resultMsg == DeliveryResultMessage(attachment[ws], frame)
               IN sent' = broadcastToMachines(
                              broadcastToViewers(sent, webSockets, attachment,
                                                 resultMsg),
                              webSockets, attachment, resultMsg, ws)
            /\ Swallowed(getViewerWebSockets(webSockets, attachment) \cup
                         (getMachineWebSockets(webSockets, attachment) \ {ws}))
            /\ UNCHANGED thrown
       ELSE UNCHANGED <<sent, nReports, nSteps, thrown, caught>>
    /\ UNCHANGED <<machine, delivery, nEvents, nDeliveries, pending,
                   attachment, webSockets, closed, errored, responses>>

\* ------------------------------------------------- disconnect (DO side)
\* variant: the offline guard written like the online guard of the upgrade
AnnouncesOfflineNamed(att) ==
    att.role = "machine" /\ Truthy(att.machineId) /\ Truthy(att.machineName)

\* variant: the offline guard without its test of the role
AnnouncesOfflineAnyRole(att) == att.role \in {"machine", "viewer"}

\* attachment?.role === "machine" && attachment.machineId
AnnouncesOffline(att) == att.role = "machine" /\ Truthy(att.machineId)

\* variant: the handler returning without ws.close(...)
AfterCloseStillHeld(ws, s) == ws

\* variant: a close that empties the registry
AfterCloseDropsAll(ws, s) == {}

\* ctx.getWebSockets() once the handler has called ws.close(...)
AfterClose(ws, s) == ws \ {s}

\* body shared by webSocketClose and webSocketError: offline broadcast to
\* the viewers held at that moment, then ws.close(...)
Disconnect(ws) ==
    /\ sent' = IF AnnouncesOffline(attachment[ws])
               THEN broadcastToViewers(sent, webSockets, attachment,
                        MachineStatusMessage(attachment[ws].machineId,
                            Coalesce(attachment[ws].machineName, ""),
                            "offline"))
               ELSE sent
    /\ heldAtOffline' = IF AnnouncesOffline(attachment[ws]) /\ ws \in webSockets
                        THEN heldAtOffline \cup {ws} ELSE heldAtOffline
    /\ webSockets' = AfterClose(webSockets, ws)
    /\ dead' = dead \ {ws}
    /\ caught' = (caught \cup
                    IF AnnouncesOffline(attachment[ws])
                    THEN LoopReaches(getViewerWebSockets(webSockets, attachment))
                            \cap dead
                    ELSE {}) \ {ws}
    /\ UNCHANGED thrown

webSocketClose(ws) ==
    /\ Step
    /\ ws \in 1..Len(attachment)
    /\ ws \notin closed
    /\ Cardinality(closed) + Cardinality(errored) < MaxCallbacks
    /\ closed' = closed \cup {ws}
    /\ Disconnect(ws)
    /\ UNCHANGED <<machine, delivery, nEvents, nDeliveries, pending,
                   attachment, errored, nReports, responses>>

webSocketError(ws) ==
    /\ Step
    /\ ws \in 1..Len(attachment)
    /\ ws \notin errored
    /\ Cardinality(closed) + Cardinality(errored) < MaxCallbacks
    /\ errored' = errored \cup {ws}
    /\ Disconnect(ws)
    /\ UNCHANGED <<machine, delivery, nEvents, nDeliveries, pending,
                   attachment, closed, nReports, responses>>

\* the peer of a held socket goes away; the actor learns of it only through
\* a throwing ws.send or a later close/error callback
socketDies(ws) ==
    /\ Step
    /\ NoDisconnect
    /\ ws \in webSockets \ dead
    /\ Cardinality(dead) < MaxDead
    /\ dead' = dead \cup {ws}
    /\ UNCHANGED <<machine, delivery, nEvents, nDeliveries, pending,
                   attachment, webSockets, sent, closed, errored, nReports,
                   responses, thrown, caught>>

\* ======================================================================
\* Store: durable delivery status (machines.reportDelivery,
\* deliveries.listByEvent)
\* ======================================================================
\* the owner of the endpoint and of its machines, and another user
OwnerId == "u1"
Users == {"u1", "u2"}

\* responseStatus of the input: z.number().nullable()
ResponseStatuses == {"200", "500", Undefined}

EventIds == {EventIdOf(i) : i \in 1..nEvents}

DeliveryIds == {d.id : d \in delivery}

DeliveryRow(deliveryId) == CHOOSE d \in delivery : d.id = deliveryId

\* the response_status column of a delivery row: null until it is written
ResponseStatusOf(deliveryId) ==
    IF deliveryId \in DOMAIN deliveryResponse
    THEN deliveryResponse[deliveryId] ELSE Undefined

\* reportDelivery passes its checks: the delivery exists and its machine
\* belongs to the caller
ReportAccepted(user, deliveryId) ==
    /\ deliveryId \in DeliveryIds
    /\ DeliveryRow(deliveryId).machineId \in MachineIds
    /\ user = OwnerId

\* variant: the update leaving the status column as it is
SetReportedKeepsStatus(row, status) == row

\* db.update(delivery).set({ status: input.status, ... })
SetReported(row, status) == [row EXCEPT !.status = status]

\* machines.reportDelivery; a call that throws NOT_FOUND changes nothing
reportDelivery(user, deliveryId, status, responseStatus) ==
    /\ NoDisconnect
    /\ NoFailure
    /\ IF ReportAccepted(user, deliveryId)
       THEN /\ Step
            /\ delivery' = {IF d.id = deliveryId
                            THEN SetReported(d, status) ELSE d : d \in delivery}
            /\ deliveryResponse' =
                  [id \in DOMAIN deliveryResponse \cup {deliveryId} |->
                      IF id = deliveryId THEN responseStatus
                      ELSE deliveryResponse[id]]
       ELSE UNCHANGED <<delivery, deliveryResponse, nSteps>>
    /\ UNCHANGED <<machine, nEvents, nDeliveries, pending, attachment,
                   webSockets, sent, closed, errored, nReports, responses,
                   caught>>

\* deliveries.listByEvent: the rows of the event joined with their machine,
\* or NOT_FOUND
listByEvent(user, eventId) ==
    IF eventId \notin EventIds \/ user # OwnerId
    THEN [error |-> "NOT_FOUND", rows |-> {}]
    ELSE [error |-> Undefined,
          rows |-> {[id |-> d.id, eventId |-> d.eventId,
                     machineId |-> d.machineId, status |-> d.status,
                     responseStatus |-> ResponseStatusOf(d.id),
                     machineName |-> MachineRow(d.machineId).name] :
                       d \in {r \in delivery : r.eventId = eventId}}]

InitStore == deliveryResponse = [id \in {} |-> Undefined]

\* registration, capture and durable reports
NextStore ==
    \/ \E name \in RegisterNames, url \in RegisterUrls :
          register(name, url) /\ UNCHANGED <<clientVars, extraVars>>
    \/ \E method \in Methods :
          handleWebhook(method) /\ UNCHANGED <<clientVars, extraVars>>
    \/ \E user \in Users, id \in DeliveryIds \cup {"d?"},
          st \in ReportStatuses, rs \in ResponseStatuses :
             reportDelivery(user, id, st, rs)
                /\ UNCHANGED <<clientVars, raceVars, wireVars, liveVars, endpointVars,
                             rpcVars, gateVars,
                   captureVars, listVars>>

\* ======================================================================
\* Capture and connect racing: the window between the creation of the
\* Delivery records and the fan-out
\* ======================================================================
\* the events whose POST /broadcast request has been issued, not yet handled
OnItsWay == {payload.eventId : payload \in pending}

\* a machine connects; the events on their way at that moment are noted
connectMachine(machineIdParam, machineNameParam) ==
    /\ handleWebSocketUpgrade("machine", machineIdParam, machineNameParam)
    /\ joinedDuring' = Append(joinedDuring, OnItsWay)
    /\ UNCHANGED <<clientVars, storeVars, wireVars, liveVars, endpointVars,
                   rpcVars, gateVars,
                   captureVars, listVars>>

InitRace == joinedDuring = <<>>

NextRace ==
    \/ \E name \in RegisterNames, url \in RegisterUrls :
          register(name, url) /\ UNCHANGED <<clientVars, extraVars>>
    \/ \E mid \in MachineIds, np \in NameParams : connectMachine(mid, np)
    \/ \E method \in Methods :
          handleWebhook(method) /\ UNCHANGED <<clientVars, extraVars>>
    \/ \E payload \in pending :
          handleBroadcast(payload) /\ UNCHANGED <<clientVars, extraVars>>
    \/ \E ws \in 1..Len(attachment) :
          webSocketClose(ws) /\ UNCHANGED <<clientVars, extraVars>>

\* ======================================================================
\* The client ends of the sockets: messages arriving
\* ======================================================================
\* variant: a transport handing over the newest message first
ArrivesNewestFirst(log, got) == Len(log) - Len(got)

\* position in the socket's log of the message that arrives next: a
\* WebSocket hands messages to the peer in the order of the ws.send calls
Arrives(log, got) == Len(got) + 1

\* the message listener of the client of socket ws is called with the next
\* message; a socket the actor has closed delivers nothing more
receive(ws) ==
    /\ ws \in webSockets
    /\ Len(inbox[ws]) < Len(sent[ws])
    /\ inbox' = [inbox EXCEPT
                   ![ws] = Append(@, sent[ws][Arrives(sent[ws], inbox[ws])])]
    /\ UNCHANGED <<relayVars, clientVars, storeVars, raceVars, liveVars,
                   endpointVars, rpcVars, gateVars,
                   captureVars, listVars>>

InitWire == inbox = [ws \in 1..MaxSockets |-> <<>>]

\* the relay with live clients that receive what the actor sends them
NextWire ==
    \/ \E name \in RegisterNames, url \in RegisterUrls :
          register(name, url) /\ UNCHANGED <<clientVars, extraVars>>
    \/ \E mid \in MachineIds, np \in NameParams :
          handleWebSocketUpgrade("machine", mid, np)
             /\ UNCHANGED <<clientVars, extraVars>>
    \/ handleWebSocketUpgrade("viewer", Undefined, Undefined)
          /\ UNCHANGED <<clientVars, extraVars>>
    \/ \E method \in Methods :
          handleWebhook(method) /\ UNCHANGED <<clientVars, extraVars>>
    \/ \E payload \in pending :
          handleBroadcast(payload) /\ UNCHANGED <<clientVars, extraVars>>
    \/ \E ws \in 1..Len(attachment) :
          webSocketClose(ws) /\ UNCHANGED <<clientVars, extraVars>>
    \/ \E ws \in webSockets : receive(ws)

\* ======================================================================
\* Dashboard: the machines map of useViewerWebSocket
\* ======================================================================
\* setMachines for one machine-status message, as the set of machine ids
\* whose entry has online: true: an online message sets the entry, an
\* offline message clears the flag of an existing entry
ApplyStatus(online, msg) ==
    IF msg.type # "machine-status" THEN online
    ELSE IF msg.status = "online" THEN online \cup {msg.machineId}
    ELSE online \ {msg.machineId}

\* the map after the listener has run for every message of log, in order
ApplyAll(online, log) ==
    LET F[i \in 0..Len(log)] ==
            IF i = 0 THEN online ELSE ApplyStatus(F[i - 1], log[i])
    IN F[Len(log)]

\* the machine ids the dashboard shows online: its map is created once and
\* kept across reconnects, so it is what the messages received on the
\* hook's successive sockets have made of it
MachinesShownOnline ==
    LET F[s \in 0..Len(attachment)] ==
            IF s = 0 THEN {}
            ELSE IF attachment[s].role = "viewer"
                 THEN ApplyAll(F[s - 1], inbox[s])
                 ELSE F[s - 1]
    IN F[Len(attachment)]

\* connect() of the one viewer hook: it has a socket at a time
viewerConnect ==
    /\ getViewerWebSockets(webSockets, attachment) = {}
    /\ handleWebSocketUpgrade("viewer", Undefined, Undefined)
    /\ UNCHANGED <<clientVars, extraVars>>

\* machines and one dashboard on an endpoint
NextPresence ==
    \/ \E name \in RegisterNames, url \in RegisterUrls :
          register(name, url) /\ UNCHANGED <<clientVars, extraVars>>
    \/ \E mid \in MachineIds :
          handleWebSocketUpgrade("machine", mid, Undefined)
             /\ UNCHANGED <<clientVars, extraVars>>
    \/ viewerConnect
    \/ \E ws \in 1..Len(attachment) :
          webSocketClose(ws) /\ UNCHANGED <<clientVars, extraVars>>
    \/ \E ws \in getViewerWebSockets(webSockets, attachment) : receive(ws)

\* ======================================================================
\* Live relay and durable write of a delivery report
\* ======================================================================
\* variant: the durable call made before the socket report
ReportCallsDurableFirst(webhookMsg, status) ==
    <<[call |-> "reportDeliveryResult", eventId |-> webhookMsg.eventId,
       deliveryId |-> webhookMsg.deliveryId, status |-> status,
       responseStatus |-> IF status = "delivered" THEN "200" ELSE Undefined,
       state |-> "inflight"],
      [call |-> "ws.send", eventId |-> webhookMsg.eventId,
       deliveryId |-> webhookMsg.deliveryId, status |-> status,
       responseStatus |-> IF status = "delivered" THEN "200" ELSE Undefined,
       state |-> "inflight"]>>

\* the calls of the machine client's .then callback for a forward that ended
\* with status: ws.send(JSON.stringify(report)), then reportDeliveryResult
ReportCalls(webhookMsg, status) ==
    <<[call |-> "ws.send", eventId |-> webhookMsg.eventId,
       deliveryId |-> webhookMsg.deliveryId, status |-> status,
       responseStatus |-> IF status = "delivered" THEN "200" ELSE Undefined,
       state |-> "inflight"],
      [call |-> "reportDeliveryResult", eventId |-> webhookMsg.eventId,
       deliveryId |-> webhookMsg.deliveryId, status |-> status,
       responseStatus |-> IF status = "delivered" THEN "200" ELSE Undefined,
       state |-> "inflight"]>>

\* the delivery-report frame of a ws.send call
FrameOf(c) ==
    [kind |-> "report", eventId |-> c.eventId, deliveryId |-> c.deliveryId,
     status |-> c.status, responseStatus |-> c.responseStatus]

\* the calls of socket ws that are in flight
InFlight(ws, call) ==
    {k \in 1..Len(issued[ws]) :
        issued[ws][k].call = call /\ issued[ws][k].state = "inflight"}

\* the forward of the i-th message of socket ws, a webhook message, has
\* completed and the client's callback makes its two calls
clientReports(ws, i, status) ==
    /\ ws \in webSockets
    /\ i \in 1..Len(sent[ws])
    /\ sent[ws][i].type = "webhook"
    /\ \A k \in 1..Len(issued[ws]) :
          issued[ws][k].deliveryId # sent[ws][i].deliveryId
    /\ issued' = [issued EXCEPT ![ws] = @ \o ReportCalls(sent[ws][i], status)]
    /\ UNCHANGED <<relayVars, clientVars, storeVars, raceVars, wireVars,
                   endpointVars, rpcVars, gateVars,
                   captureVars, listVars>>

\* the report of a ws.send call reaches the actor
relayReport(ws, k) ==
    /\ k \in InFlight(ws, "ws.send")
    /\ webSocketMessage(ws, FrameOf(issued[ws][k]))
    /\ issued' = [issued EXCEPT ![ws][k].state = "done"]
    /\ UNCHANGED <<clientVars, storeVars, raceVars, wireVars, endpointVars,
                   rpcVars, gateVars,
                   captureVars, listVars>>

\* the reportDeliveryResult call is served by machines.reportDelivery, or it
\* fails on its way and the client's .catch(() => {}) swallows the failure
durableWrite(ws, k, served) ==
    /\ k \in InFlight(ws, "reportDeliveryResult")
    /\ IF served
       THEN /\ ReportAccepted(OwnerId, issued[ws][k].deliveryId)
            /\ reportDelivery(OwnerId, issued[ws][k].deliveryId,
                              issued[ws][k].status,
                              issued[ws][k].responseStatus)
            /\ issued' = [issued EXCEPT ![ws][k].state = "done"]
       ELSE /\ issued' = [issued EXCEPT ![ws][k].state = "failed"]
            /\ UNCHANGED <<relayVars, storeVars>>
    /\ UNCHANGED <<clientVars, raceVars, wireVars, endpointVars, rpcVars,
                   gateVars,
                   captureVars, listVars>>

InitLive == issued = [ws \in 1..MaxSockets |-> <<>>]

\* the relay, the store and machine clients that report their forwards on
\* both paths; a client may also put a report on its socket and make no
\* durable call at all
NextLive ==
    \/ \E name \in RegisterNames, url \in RegisterUrls :
          register(name, url) /\ UNCHANGED <<clientVars, extraVars>>
    \/ \E mid \in MachineIds, np \in NameParams :
          handleWebSocketUpgrade("machine", mid, np)
             /\ UNCHANGED <<clientVars, extraVars>>
    \/ handleWebSocketUpgrade("viewer", Undefined, Undefined)
          /\ UNCHANGED <<clientVars, extraVars>>
    \/ \E method \in Methods :
          handleWebhook(method) /\ UNCHANGED <<clientVars, extraVars>>
    \/ \E payload \in pending :
          handleBroadcast(payload) /\ UNCHANGED <<clientVars, extraVars>>
    \/ \E ws \in webSockets, i \in 1..MaxEvents, st \in ReportStatuses :
          clientReports(ws, i, st)
    \/ \E ws \in webSockets : \E k \in InFlight(ws, "ws.send") :
          relayReport(ws, k)
    \/ \E ws \in 1..MaxSockets :
          \E k \in InFlight(ws, "reportDeliveryResult"), served \in BOOLEAN :
             durableWrite(ws, k, served)
    \/ \E ws \in webSockets : \E frame \in Reports(ws) :
          webSocketMessage(ws, frame) /\ UNCHANGED <<clientVars, extraVars>>

\* ======================================================================
\* Several endpoints: one Durable Object per endpoint id
\* ======================================================================
\* the slugs of the endpoint table, all owned by the session's user
Slugs == {"a", "b"}

\* db.query.endpoint.findFirst({ where: eq(endpoint.slug, slug) }).id
EndpointOfSlug(slug) == "ep-" \o slug

EndpointIds == {EndpointOfSlug(slug) : slug \in Slugs}

\* variant: a namespace that maps every name to the same object id
idFromNameShared(name) == "do:"

\* env.ENDPOINT_DO.idFromName(name): the same id for the same name,
\* different ids for different names
idFromName(name) == "do:" \o name

getEndpointDO(endpointId) == idFromName(endpointId)

\* env.ENDPOINT_DO.get(doId): the object of that id, created on first use
ObjectOf(doId) ==
    IF doId \in DOMAIN objects THEN objects[doId]
    ELSE [attachment |-> <<>>, webSockets |-> {}, sent |-> <<>>]

\* the namespace once the object doId has handled a request
WithObject(doId, state) ==
    [id \in DOMAIN objects \cup {doId} |->
        IF id = doId THEN state ELSE objects[id]]

EpStep == epSteps < MaxSteps /\ epSteps' = epSteps + 1

\* machines.register for the endpoint endpointId
epRegister(endpointId, name) ==
    /\ EpStep
    /\ Len(epMachine) < MaxMachines
    /\ epMachine' = Append(epMachine,
                        [id |-> MachineIdOf(Len(epMachine) + 1),
                         endpointId |-> endpointId, name |-> name,
                         userId |-> OwnerId, status |-> "offline"])
    /\ UNCHANGED <<objects, routed, epPending, registered, epEvents,
                   epDeliveries, epReports, epClosed>>

\* DO handleWebSocketUpgrade on the state of one object
UpgradeOn(state, att) ==
    LET server == Len(state.attachment) + 1
        accepted == state.webSockets \cup {server}
        atts == Append(state.attachment, att)
    IN [attachment |-> atts,
        webSockets |-> accepted,
        sent |-> IF AnnouncesOnline(att)
                 THEN Append(broadcastToViewers(state.sent, accepted, atts,
                                 MachineStatusMessage(att.machineId,
                                                      att.machineName, "online")),
                             <<>>)
                 ELSE IF att.role = "viewer"
                 THEN SendSnapshot(state.sent, accepted, atts)
                 ELSE Append(state.sent, <<>>)]

\* Worker handleWebSocketUpgrade for /ws/:slug: the machine must be a row of
\* this endpoint; the request goes to the object of getEndpointDO(ep.id)
epUpgrade(slug, role, machineIdParam) ==
    LET endpointId == EndpointOfSlug(slug)
        doId == getEndpointDO(endpointId)
        rows == {i \in 1..Len(epMachine) :
                    /\ epMachine[i].id = machineIdParam
                    /\ epMachine[i].endpointId = endpointId}
        att == IF role = "machine"
               THEN [role |-> "machine",
                     machineId |-> ForwardedParam(machineIdParam),
                     machineName |-> ForwardedParam(
                         epMachine[CHOOSE i \in rows : TRUE].name)]
               ELSE [role |-> "viewer", machineId |-> Undefined,
                     machineName |-> Undefined]
    IN /\ EpStep
       /\ Len(registered) < MaxSockets
       /\ role = "machine" => rows # {}
       /\ epMachine' = [i \in 1..Len(epMachine) |->
                           IF role = "machine" /\ epMachine[i].id = machineIdParam
                           THEN [epMachine[i] EXCEPT !.status = "online"]
                           ELSE epMachine[i]]
       /\ objects' = WithObject(doId, UpgradeOn(ObjectOf(doId), att))
       /\ routed' = routed \cup {[endpointId |-> endpointId, object |-> doId]}
       /\ registered' = Append(registered,
                            [endpointId |-> endpointId, object |-> doId,
                             socket |-> Len(ObjectOf(doId).attachment) + 1])
       /\ UNCHANGED <<epPending, epEvents, epDeliveries, epReports, epClosed>>

\* the machine rows of one endpoint, in insertion order
RowsOf(endpointId) ==
    SelectSeq(epMachine, LAMBDA m : m.endpointId = endpointId)

\* handleWebhook for /hooks/:slug, then broadcastToMachines up to the point
\* where POST /broadcast is issued to the object of getEndpointDO(endpointId)
epWebhook(slug, method) ==
    LET endpointId == EndpointOfSlug(slug)
        doId == getEndpointDO(endpointId)
        rows == RowsOf(endpointId)
        records == DeliveryRecords(rows, epDeliveries)
    IN /\ EpStep
       /\ epEvents < MaxEvents
       /\ epEvents' = epEvents + 1
       /\ IF Len(rows) = 0
          THEN UNCHANGED <<routed, epPending, epDeliveries>>
          ELSE /\ epDeliveries' = epDeliveries + Len(records)
               /\ routed' = routed \cup
                     {[endpointId |-> endpointId, object |-> doId]}
               /\ epPending' = epPending \cup
                     {[endpointId |-> endpointId, object |-> doId,
                       payload |-> [eventId |-> EventIdOf(epEvents + 1),
                                    method |-> method,
                                    deliveries |-> DeliveriesMap(records)]]}
       /\ UNCHANGED <<objects, epMachine, registered, epReports, epClosed>>

\* DO handleBroadcast on the state of one object
BroadcastOn(state, payload) ==
    [state EXCEPT !.sent =
        [s \in DOMAIN state.sent |->
            IF s \in LoopReaches(WebhookTargets(state.webSockets,
                                     state.attachment, payload.deliveries))
            THEN Append(state.sent[s],
                     WebhookEventMessage(payload.eventId,
                         DeliveryFor(payload.deliveries,
                                     state.attachment[s].machineId),
                         payload.method))
            ELSE state.sent[s]]]

\* a POST /broadcast request reaches its object
epBroadcast(request) ==
    /\ EpStep
    /\ request \in epPending
    /\ epPending' = epPending \ {request}
    /\ objects' = WithObject(request.object,
                      BroadcastOn(ObjectOf(request.object), request.payload))
    /\ UNCHANGED <<routed, epMachine, registered, epEvents, epDeliveries,
                   epReports, epClosed>>

\* DO webSocketMessage with a delivery-report on the state of one object
ReportOn(state, ws, frame) ==
    LET resultMsg == DeliveryResultMessage(state.attachment[ws], frame)
    IN [state EXCEPT !.sent =
           broadcastToMachines(
               broadcastToViewers(state.sent, state.webSockets,
                                  state.attachment, resultMsg),
               state.webSockets, state.attachment, resultMsg, ws)]

\* the reports the client of a connection may send: one per webhook message
\* it was sent, one with ids no actor issued
EpReports(conn) ==
    LET log == objects[conn.object].sent[conn.socket]
    IN {[kind |-> "report", eventId |-> e, deliveryId |-> d,
         status |-> "delivered", responseStatus |-> "200"] :
           e \in {"e?"}, d \in {"d?"}}
       \cup
       {[kind |-> "report", eventId |-> log[i].eventId,
         deliveryId |-> log[i].deliveryId, status |-> "delivered",
         responseStatus |-> "200"] :
           i \in {j \in 1..Len(log) : log[j].type = "webhook"}}

\* the connections their objects still hold
Held == {i \in 1..Len(registered) :
            registered[i].socket \in objects[registered[i].object].webSockets}

\* a delivery-report arrives on connection i
epMessage(i, frame) ==
    /\ EpStep
    /\ i \in Held
    /\ epReports < MaxReports
    /\ epReports' = epReports + 1
    /\ objects' = WithObject(registered[i].object,
                      ReportOn(objects[registered[i].object],
                               registered[i].socket, frame))
    /\ UNCHANGED <<routed, epMachine, epPending, registered, epEvents,
                   epDeliveries, epClosed>>

\* DO webSocketClose on the state of one object
CloseOn(state, ws) ==
    [state EXCEPT
        !.sent = IF AnnouncesOffline(state.attachment[ws])
                 THEN broadcastToViewers(state.sent, state.webSockets,
                          state.attachment,
                          MachineStatusMessage(state.attachment[ws].machineId,
                              Coalesce(state.attachment[ws].machineName, ""),
                              "offline"))
                 ELSE state.sent,
        !.webSockets = AfterClose(state.webSockets, ws)]

\* the close callback of connection i runs
epClose(i) ==
    /\ EpStep
    /\ i \in 1..Len(registered)
    /\ i \notin epClosed
    /\ Cardinality(epClosed) < MaxCallbacks
    /\ epClosed' = epClosed \cup {i}
    /\ objects' = WithObject(registered[i].object,
                      CloseOn(objects[registered[i].object],
                              registered[i].socket))
    /\ UNCHANGED <<routed, epMachine, epPending, registered, epEvents,
                   epDeliveries, epReports>>

\* the operations on one endpoint
OnEndpoint(endpointId) ==
    \/ \E name \in RegisterNames : epRegister(endpointId, name)
    \/ \E slug \in Slugs, role \in RoleParams,
          mid \in {epMachine[i].id : i \in 1..Len(epMachine)} \cup {Undefined} :
          EndpointOfSlug(slug) = endpointId /\ epUpgrade(slug, role, mid)
    \/ \E slug \in Slugs, method \in Methods :
          EndpointOfSlug(slug) = endpointId /\ epWebhook(slug, method)
    \/ \E request \in epPending :
          request.endpointId = endpointId /\ epBroadcast(request)
    \/ \E i \in Held : \E frame \in EpReports(registered[i]) :
          registered[i].endpointId = endpointId /\ epMessage(i, frame)
    \/ \E i \in 1..Len(registered) :
          registered[i].endpointId = endpointId /\ epClose(i)

InitEndpoints ==
    /\ objects = [id \in {} |-> Undefined]
    /\ routed = {}
    /\ epMachine = <<>>
    /\ epPending = {}
    /\ registered = <<>>
    /\ epEvents = 0
    /\ epDeliveries = 0
    /\ epReports = 0
    /\ epClosed = {}
    /\ epSteps = 0

NextEndpoints ==
    \/ \E endpointId \in EndpointIds, name \in RegisterNames :
          epRegister(endpointId, name)
             /\ UNCHANGED <<relayVars, clientVars, storeVars, raceVars,
                            wireVars, liveVars, rpcVars, gateVars,
                            captureVars, listVars>>
    \/ \E slug \in Slugs,
          mid \in {epMachine[i].id : i \in 1..Len(epMachine)} :
          epUpgrade(slug, "machine", mid)
             /\ UNCHANGED <<relayVars, clientVars, storeVars, raceVars,
                            wireVars, liveVars, rpcVars, gateVars,
                            captureVars, listVars>>
    \/ \E slug \in Slugs :
          epUpgrade(slug, "viewer", Undefined)
             /\ UNCHANGED <<relayVars, clientVars, storeVars, raceVars,
                            wireVars, liveVars, rpcVars, gateVars,
                            captureVars, listVars>>
    \/ \E slug \in Slugs, method \in Methods :
          epWebhook(slug, method)
             /\ UNCHANGED <<relayVars, clientVars, storeVars, raceVars,
                            wireVars, liveVars, rpcVars, gateVars,
                            captureVars, listVars>>
    \/ \E request \in epPending :
          epBroadcast(request)
             /\ UNCHANGED <<relayVars, clientVars, storeVars, raceVars,
                            wireVars, liveVars, rpcVars, gateVars,
                            captureVars, listVars>>
    \/ \E i \in Held : \E frame \in EpReports(registered[i]) :
          epMessage(i, frame)
             /\ UNCHANGED <<relayVars, clientVars, storeVars, raceVars,
                            wireVars, liveVars, rpcVars, gateVars,
                            captureVars, listVars>>
    \/ \E i \in 1..Len(registered) :
          epClose(i)
             /\ UNCHANGED <<relayVars, clientVars, storeVars, raceVars,
                            wireVars, liveVars, rpcVars, gateVars,
                            captureVars, listVars>>

\* ======================================================================
\* The actor's RPC method getConnectedMachines
\* ======================================================================
\* the Worker calls stub.getConnectedMachines() and keeps what it returns
getConnectedMachinesRpc ==
    /\ connectedMachines' = getConnectedMachines(webSockets, attachment)
    /\ UNCHANGED <<relayVars, clientVars, storeVars, raceVars, wireVars,
                   liveVars, endpointVars, gateVars,
                   captureVars, listVars>>

InitRpc == connectedMachines = {}

\* the relay's broadcasts and the identity query, with sockets that die
NextReadOnly ==
    \/ \E name \in RegisterNames, url \in RegisterUrls :
          register(name, url) /\ UNCHANGED <<clientVars, extraVars>>
    \/ \E mid \in MachineIds, np \in NameParams :
          handleWebSocketUpgrade("machine", mid, np)
             /\ UNCHANGED <<clientVars, extraVars>>
    \/ handleWebSocketUpgrade("viewer", Undefined, Undefined)
          /\ UNCHANGED <<clientVars, extraVars>>
    \/ \E method \in Methods :
          handleWebhook(method) /\ UNCHANGED <<clientVars, extraVars>>
    \/ \E payload \in pending :
          handleBroadcast(payload) /\ UNCHANGED <<clientVars, extraVars>>
    \/ \E ws \in webSockets : \E frame \in Reports(ws) :
          webSocketMessage(ws, frame) /\ UNCHANGED <<clientVars, extraVars>>
    \/ \E ws \in 1..Len(attachment) :
          webSocketClose(ws) /\ UNCHANGED <<clientVars, extraVars>>
    \/ \E ws \in webSockets :
          socketDies(ws) /\ UNCHANGED <<clientVars, extraVars>>
    \/ getConnectedMachinesRpc

\* ======================================================================
\* The Worker's upgrade gate (handleWebSocketUpgrade for /ws/:slug)
\* ======================================================================
\* slugs of upgrade URLs: those of the endpoint table and an unknown one
RequestSlugs == Slugs \cup {"zz"}

\* auth.api.getSession(...)?.user?.id: no session, the owner, another user
Sessions == {Undefined, "u1", "u2"}

\* c.req.query("role")
RequestRoles == RoleParams \cup {Undefined}

\* c.req.query("machineId"): absent, or the id of a machine row
RequestMachineIds ==
    {epMachine[i].id : i \in 1..Len(epMachine)} \cup {Undefined}

\* endpoint.userId of the endpoint with slug
EndpointOwner(slug) == OwnerId

\* variant: the gate without its ownership test
OwnsEndpointAnyone(slug, user) == TRUE

\* ep.userId === session.user.id
OwnsEndpoint(slug, user) == EndpointOwner(slug) = user

\* db.query.machine.findFirst({ where: and(eq(machine.id, machineId),
\* eq(machine.endpointId, ep.id), eq(machine.userId, session.user.id)) })
MachineFound(slug, user, machineIdParam) ==
    \E i \in 1..Len(epMachine) :
       /\ epMachine[i].id = machineIdParam
       /\ epMachine[i].endpointId = EndpointOfSlug(slug)
       /\ epMachine[i].userId = user

\* DO: if (!(role && userId)) return 400
DORejects(role, userId) == ~(Truthy(role) /\ Truthy(Coalesce(userId, "")))

\* the status the request is answered with, the checks in the code's order
UpgradeStatus(slug, user, role, machineIdParam) ==
    IF slug \notin Slugs THEN 404
    ELSE IF user = Undefined THEN 401
    ELSE IF ~OwnsEndpoint(slug, user) THEN 403
    ELSE IF role \notin {"machine", "viewer"} THEN 400
    ELSE IF role = "machine" /\ ~Truthy(machineIdParam) THEN 400
    ELSE IF role = "machine" /\ ~MachineFound(slug, user, machineIdParam)
    THEN 404
    ELSE IF DORejects(role, user) THEN 400
    ELSE 101

\* one upgrade request: every return before the machine update and the
\* stub.fetch leaves store and actor alone
upgradeRequest(slug, user, role, machineIdParam) ==
    /\ upgradeResponse' = UpgradeStatus(slug, user, role, machineIdParam)
    /\ IF UpgradeStatus(slug, user, role, machineIdParam) = 101
       THEN Len(registered) < MaxUpgrades
               /\ epUpgrade(slug, role, machineIdParam)
       ELSE UNCHANGED endpointVars
    /\ UNCHANGED <<relayVars, clientVars, storeVars, raceVars, wireVars,
                   liveVars, rpcVars, captureVars, listVars>>

InitGate == upgradeResponse = 0

\* registrations on the endpoints and upgrade requests of every kind
NextGate ==
    \/ \E endpointId \in EndpointIds, name \in RegisterNames :
          epRegister(endpointId, name)
             /\ UNCHANGED <<relayVars, clientVars, storeVars, raceVars,
                            wireVars, liveVars, rpcVars, gateVars,
                            captureVars, listVars>>
    \/ \E slug \in RequestSlugs, user \in Sessions, role \in RequestRoles,
          mid \in RequestMachineIds :
          upgradeRequest(slug, user, role, mid)

\* ======================================================================
\* Capture: handleWebhook and processBroadcastAndForward
\* ======================================================================
\* the endpoint table: an enabled endpoint with a static forward URL, an
\* enabled one without, a disabled one
HookEndpoints ==
    {[slug |-> "fwd", enabled |-> TRUE, forwardUrl |-> "http://f"],
     [slug |-> "plain", enabled |-> TRUE, forwardUrl |-> Undefined],
     [slug |-> "off", enabled |-> FALSE, forwardUrl |-> "http://f"]}

\* slugs of webhook URLs: those of the table and an unknown one
HookSlugs == {ep.slug : ep \in HookEndpoints} \cup {"zz"}

\* db.query.endpoint.findFirst({ where: eq(endpoint.slug, slug) })
HookEndpoint(slug) == CHOOSE ep \in HookEndpoints : ep.slug = slug

\* how broadcastToMachines ends: no machine rows, the insert of the Delivery
\* records throws, stub.fetch throws, the actor answers not ok, it answers ok
BroadcastOutcomes ==
    {"no-machines", "insert-throws", "fetch-throws", "not-ok", "ok"}

\* how fetch(ep.forwardUrl) ends
StaticForwardOutcomes == {"200", "500", "throws"}

\* variant: the broadcast awaited outside a try/catch
AfterBroadcastUncaught(ep, outcome) ==
    IF outcome \in {"insert-throws", "fetch-throws"} THEN "rejected"
    ELSE IF Truthy(ep.forwardUrl) THEN "forward" ELSE "done"

\* where processBroadcastAndForward goes on after its try/catch around
\* broadcastToMachines: if (ep.forwardUrl) { ... }
AfterBroadcast(ep, outcome) ==
    IF Truthy(ep.forwardUrl) THEN "forward" ELSE "done"

\* handleWebhook for /hooks/:slug; stored says whether db.insert(event)
\* succeeds (a throw leaves the handler, 500)
hookRequest(slug, stored) ==
    /\ Cardinality(eventRows) < MaxEvents
    /\ IF slug \notin {ep.slug : ep \in HookEndpoints}
       THEN /\ answers' = answers \cup
                  {[slug |-> slug, status |-> 404, eventId |-> Undefined]}
            /\ UNCHANGED <<eventRows, tasks>>
       ELSE IF ~HookEndpoint(slug).enabled
       THEN /\ answers' = answers \cup
                  {[slug |-> slug, status |-> 403, eventId |-> Undefined]}
            /\ UNCHANGED <<eventRows, tasks>>
       ELSE IF ~stored
       THEN /\ answers' = answers \cup
                  {[slug |-> slug, status |-> 500, eventId |-> Undefined]}
            /\ UNCHANGED <<eventRows, tasks>>
       ELSE LET id == EventIdOf(Cardinality(eventRows) + 1)
            IN /\ eventRows' = eventRows \cup
                     {[id |-> id, slug |-> slug, forward |-> "none"]}
               /\ tasks' = tasks \cup
                     {[eventId |-> id, slug |-> slug, stage |-> "broadcast",
                       broadcast |-> "none", forward |-> "none"]}
               /\ answers' = answers \cup
                     {[slug |-> slug, status |-> 202, eventId |-> id]}
    /\ UNCHANGED <<relayVars, clientVars, storeVars, raceVars, wireVars,
                   liveVars, endpointVars, rpcVars, gateVars, listVars>>

\* the deferred task runs broadcastToMachines inside its try/catch
deferredBroadcast(task, outcome) ==
    /\ task \in tasks
    /\ task.stage = "broadcast"
    /\ tasks' = (tasks \ {task}) \cup
          {[task EXCEPT !.broadcast = outcome,
                        !.stage = AfterBroadcast(HookEndpoint(task.slug),
                                                 outcome)]}
    /\ UNCHANGED <<eventRows, answers>>
    /\ UNCHANGED <<relayVars, clientVars, storeVars, raceVars, wireVars,
                   liveVars, endpointVars, rpcVars, gateVars, listVars>>

\* the deferred task calls fetch(ep.forwardUrl) and writes what came of it
\* to the event row
deferredForward(task, outcome) ==
    /\ task \in tasks
    /\ task.stage = "forward"
    /\ tasks' = (tasks \ {task}) \cup
          {[task EXCEPT !.forward = outcome, !.stage = "done"]}
    /\ eventRows' = {IF row.id = task.eventId
                     THEN [row EXCEPT !.forward = outcome] ELSE row :
                        row \in eventRows}
    /\ UNCHANGED answers
    /\ UNCHANGED <<relayVars, clientVars, storeVars, raceVars, wireVars,
                   liveVars, endpointVars, rpcVars, gateVars, listVars>>

InitCapture ==
    /\ eventRows = {}
    /\ answers = {}
    /\ tasks = {}

NextCapture ==
    \/ \E slug \in HookSlugs, stored \in BOOLEAN : hookRequest(slug, stored)
    \/ \E task \in tasks, outcome \in BroadcastOutcomes :
          deferredBroadcast(task, outcome)
    \/ \E task \in tasks, outcome \in StaticForwardOutcomes :
          deferredForward(task, outcome)

\* ======================================================================
\* events.list: cursor-based pagination
\* ======================================================================
\* the event rows of the endpoint
Rows == DOMAIN createdAt

\* where: and(eq(event.endpointId, ...), lt(event.createdAt, input.cursor)),
\* the second condition only if (input.cursor)
Selected(cur) ==
    IF cur = <<>> THEN Rows ELSE {e \in Rows : createdAt[e] < cur[1]}

\* orderBy: [desc(event.createdAt)]: the orders the store may return the
\* selected rows in; rows of equal creation time come in any order
Orderings(rows) ==
    {order \in [1..Cardinality(rows) -> rows] :
        /\ \A i, j \in 1..Cardinality(rows) : i # j => order[i] # order[j]
        /\ \A i, j \in 1..Cardinality(rows) :
              i < j => createdAt[order[i]] >= createdAt[order[j]]}

\* findMany(... limit: input.limit + 1)
Fetched(order) ==
    SubSeq(order, 1, IF Len(order) > limit + 1 THEN limit + 1 ELSE Len(order))

\* hasMore ? items.at(-1)?.createdAt : undefined
NextCursor(found) ==
    IF Len(found) > limit THEN <<createdAt[found[limit]]>> ELSE <<>>

\* hasMore ? events.slice(0, input.limit) : found
Items(found) ==
    IF Len(found) > limit THEN SubSeq(found, 1, limit) ELSE found

\* one call of events.list with the cursor of the previous page
list ==
    /\ ~listDone
    /\ \E order \in Orderings(Selected(cursor)) :
          LET found == Fetched(order)
          IN /\ listed' = listed \o Items(found)
             /\ cursor' = NextCursor(found)
             /\ listDone' = (NextCursor(found) = <<>>)
    /\ UNCHANGED <<createdAt, limit>>
    /\ UNCHANGED <<relayVars, clientVars, storeVars, raceVars, wireVars,
                   liveVars, endpointVars, rpcVars, gateVars, captureVars>>

\* any number of rows with any creation times, any page size, first call
\* without cursor
InitList ==
    /\ \E n \in 0..MaxRows : createdAt \in [1..n -> 1..MaxTime]
    /\ limit \in 1..MaxLimit
    /\ cursor = <<>>
    /\ listed = <<>>
    /\ listDone = FALSE

NextList == list

\* no listing going on: the state of the list variables in the
\* specifications that never call events.list
NoListing ==
    /\ createdAt = <<>>
    /\ limit = 1
    /\ cursor = <<>>
    /\ listed = <<>>
    /\ listDone = FALSE

\* ======================================================================
\* CLI client: machine identity resolution (direct mode)
\* ======================================================================
\* CLI client processes of one user that can be alive at once
ProcIds == {1, 2}

\* nameOverride ?? getMachineName()
BaseNames == {"Box", "Hub"}

\* --forward destinations
ForwardUrls == {"u1", "u2"}

\* texts matched by \d+ that a store of this size can hold
DigitStrings == {ToString(n) : n \in 0..(MaxMachines + 1)}

\* MACHINE_NAME_SUFFIX_RE.exec(name)?.[1]: the text before the last "-" of a
\* name that ends in "-" and digits
SuffixBase(name) ==
    LET bases == {b \in BaseNames : \E d \in DigitStrings : name = b \o "-" \o d}
    IN IF bases = {} THEN Undefined ELSE CHOOSE b \in bases : TRUE

\* machines.filter(...): the records named baseName or baseName-N
OwnMachines(machines, baseName) ==
    SelectSeq(machines,
              LAMBDA m : m.name = baseName \/ SuffixBase(m.name) = baseName)

\* variant: the last offline record instead of the first
FindOfflineLast(ownMachines) ==
    LET offline == SelectSeq(ownMachines, LAMBDA m : m.status = "offline")
    IN IF offline = <<>> THEN <<>> ELSE <<offline[Len(offline)]>>

\* ownMachines.find((m) => m.status === "offline"): <<>> for undefined
FindOffline(ownMachines) ==
    LET offline == SelectSeq(ownMachines, LAMBDA m : m.status = "offline")
    IN IF offline = <<>> THEN <<>> ELSE <<Head(offline)>>

\* variant: the suffix taken from the count itself
NextNameByCount(baseName, ownMachines) ==
    IF Len(ownMachines) > 0
    THEN baseName \o "-" \o ToString(Len(ownMachines))
    ELSE baseName

\* nextName: baseName, or baseName-(ownMachines.length + 1)
NextName(baseName, ownMachines) ==
    IF Len(ownMachines) > 0
    THEN baseName \o "-" \o ToString(Len(ownMachines) + 1)
    ELSE baseName

\* what findOrCreateMachine does once fetchMachines has resolved, all of it
\* before its next await: filter, find, and the call it decides on
Decision(machines, baseName, forwardUrl) ==
    LET ownMachines == OwnMachines(machines, baseName)
        offlineMachine == FindOffline(ownMachines)
    IN IF offlineMachine # <<>>
       THEN [op |-> IF offlineMachine[1].forwardUrl # forwardUrl
                    THEN "update" ELSE "reuse",
             id |-> offlineMachine[1].id,
             name |-> offlineMachine[1].name,
             forwardUrl |-> forwardUrl]
       ELSE [op |-> "register",
             id |-> Undefined,
             name |-> NextName(baseName, ownMachines),
             forwardUrl |-> forwardUrl]

Idle == [op |-> "idle", id |-> Undefined, name |-> Undefined,
         forwardUrl |-> Undefined]

Stopped ==
    [pc |-> "stopped", baseName |-> Undefined, request |-> Idle,
     machineId |-> Undefined, machineName |-> Undefined, ws |-> 0]

Live(pr, baseName) ==
    {p \in ProcIds : pr[p].pc # "stopped" /\ pr[p].baseName = baseName}

\* a process starts (handleListenCommand); findOrCreateMachine awaits
\* fetchMachines (machines.list returns the records of the endpoint) and
\* goes on to the call it decides on.  Processes are interchangeable: a new
\* one takes the lowest free slot.
fetchMachines(p, baseName, forwardUrl) ==
    /\ proc[p].pc = "stopped"
    /\ \A q \in 1..(p - 1) : proc[q].pc # "stopped"
    /\ proc' = [proc EXCEPT ![p] =
                   [Stopped EXCEPT !.pc = "listed",
                                   !.baseName = baseName,
                                   !.request = Decision(machine, baseName,
                                                        forwardUrl)]]
    /\ maxLive' = [b \in BaseNames |->
                     IF Cardinality(Live(proc', b)) > maxLive[b]
                     THEN Cardinality(Live(proc', b)) ELSE maxLive[b]]
    /\ UNCHANGED <<relayVars, hookVars, monitorVars, extraVars>>

\* the rest of findOrCreateMachine: the store serves the call (machines.update
\* or machines.register, none when the record is reused as it is) and the
\* function returns the machine
findOrCreateMachine(p) ==
    /\ proc[p].pc = "listed"
    /\ LET request == proc[p].request
       IN /\ IF request.op = "update"
             THEN update(request.id, Undefined, request.forwardUrl)
             ELSE IF request.op = "register"
             THEN register(request.name, request.forwardUrl)
             ELSE UNCHANGED relayVars
          /\ proc' = [proc EXCEPT
                        ![p].pc = "resolved",
                        ![p].request = Idle,
                        ![p].machineId =
                            IF request.op = "register"
                            THEN MachineIdOf(Len(machine) + 1)
                            ELSE request.id,
                        ![p].machineName = request.name]
    /\ UNCHANGED <<maxLive, hookVars, monitorVars, extraVars>>

\* MonitorScreen opens its socket with the resolved machine's id and name
connectAsMachine(p) ==
    /\ proc[p].pc = "resolved"
    /\ handleWebSocketUpgrade("machine", proc[p].machineId, proc[p].machineName)
    /\ proc' = [proc EXCEPT ![p].pc = "connected",
                            ![p].ws = Len(attachment) + 1]
    /\ UNCHANGED <<maxLive, hookVars, monitorVars, extraVars>>

\* the process ends (quit, kill, crash); the socket it held closes and the
\* actor's close callback runs for it
processExit(p) ==
    /\ proc[p].pc # "stopped"
    /\ IF proc[p].pc = "connected"
       THEN webSocketClose(proc[p].ws)
       ELSE UNCHANGED relayVars
    /\ proc' = [proc EXCEPT ![p] = Stopped]
    /\ UNCHANGED <<maxLive, hookVars, monitorVars, extraVars>>

InitResolver ==
    /\ proc = [p \in ProcIds |-> Stopped]
    /\ maxLive = [b \in BaseNames |-> 0]

NextResolver ==
    \/ \E p \in ProcIds, b \in BaseNames, url \in ForwardUrls :
          fetchMachines(p, b, url)
    \/ \E p \in ProcIds : findOrCreateMachine(p)
    \/ \E p \in ProcIds : connectAsMachine(p)
    \/ \E p \in ProcIds : processExit(p)

\* names the dashboard's register form may be given: z.string().min(1).max(100)
DashboardNames == {"Box", "Box-2", "Box-3"}

\* one CLI process after another on a store that the dashboard also
\* registers machines in, under names of the user's choice
NextMint ==
    \/ \E name \in DashboardNames, url \in RegisterUrls :
          register(name, url) /\ UNCHANGED <<clientVars, extraVars>>
    \/ \E mid \in MachineIds, np \in {Undefined} :
          handleWebSocketUpgrade("machine", mid, np)
             /\ UNCHANGED <<clientVars, extraVars>>
    \/ \E b \in BaseNames, url \in ForwardUrls : fetchMachines(1, b, url)
    \/ findOrCreateMachine(1)
    \/ connectAsMachine(1)
    \/ processExit(1)

\* ======================================================================
\* Dashboard: useViewerWebSocket
\* ======================================================================
\* connect(): new WebSocket(wsUrl); wsRef.current = ws
Connect ==
    /\ Len(sockets) < MaxAttempts
    /\ sockets' = Append(sockets, "connecting")
    /\ wsRef' = Len(sockets) + 1

\* ws.close(): a socket not yet closing or closed starts closing
CloseSocket(socks, s) ==
    IF s # 0 /\ socks[s] \in {"connecting", "open"}
    THEN [socks EXCEPT ![s] = "closing"] ELSE socks

\* the delay onclose passes to setTimeout before reconnect attempt number
\* attempt
ScheduledDelay(attempt) == ReconnectDelay

\* useEffect(() => { connect(); ... }, [connect])
mountHook ==
    /\ hookEffect = "idle"
    /\ hookEffect' = "mounted"
    /\ Connect
    /\ UNCHANGED <<reconnectTimeoutRef, timers, connected, attempts>>
    /\ UNCHANGED <<relayVars, resolverVars, monitorVars, extraVars>>

\* ws.onopen
onopen(s) ==
    /\ sockets[s] = "connecting"
    /\ sockets' = [sockets EXCEPT ![s] = "open"]
    /\ connected' = TRUE
    /\ attempts' = 0
    /\ UNCHANGED <<hookEffect, wsRef, reconnectTimeoutRef, timers>>
    /\ UNCHANGED <<relayVars, resolverVars, monitorVars, extraVars>>

\* ws.onerror: ws.close()
onerror(s) ==
    /\ sockets[s] \in {"connecting", "open"}
    /\ sockets' = CloseSocket(sockets, s)
    /\ UNCHANGED <<hookEffect, wsRef, reconnectTimeoutRef, timers, connected,
                   attempts>>
    /\ UNCHANGED <<relayVars, resolverVars, monitorVars, extraVars>>

\* ws.onclose, for a socket the server closed or one that was closing
onclose(s) ==
    /\ sockets[s] \in {"open", "closing"}
    /\ sockets' = [sockets EXCEPT ![s] = "closed"]
    /\ connected' = FALSE
    /\ wsRef' = 0
    /\ timers' = Append(timers, [state |-> "pending",
                                 delay |-> ScheduledDelay(attempts + 1),
                                 attempt |-> attempts + 1])
    /\ reconnectTimeoutRef' = Len(timers) + 1
    /\ UNCHANGED <<hookEffect, attempts>>
    /\ UNCHANGED <<relayVars, resolverVars, monitorVars, extraVars>>

\* the timeout set by onclose expires: connect()
reconnectTimeout(t) ==
    /\ timers[t].state = "pending"
    /\ timers' = [timers EXCEPT ![t].state = "fired"]
    /\ Connect
    /\ attempts' = attempts + 1
    /\ UNCHANGED <<hookEffect, reconnectTimeoutRef, connected>>
    /\ UNCHANGED <<relayVars, resolverVars, monitorVars, extraVars>>

\* the effect's cleanup: clearTimeout(reconnectTimeoutRef.current),
\* wsRef.current?.close(), wsRef.current = null
cleanupHook ==
    /\ hookEffect = "mounted"
    /\ hookEffect' = "cleaned"
    /\ timers' = IF reconnectTimeoutRef # 0
                    /\ timers[reconnectTimeoutRef].state = "pending"
                 THEN [timers EXCEPT ![reconnectTimeoutRef].state = "cleared"]
                 ELSE timers
    /\ sockets' = CloseSocket(sockets, wsRef)
    /\ wsRef' = 0
    /\ UNCHANGED <<reconnectTimeoutRef, connected, attempts>>
    /\ UNCHANGED <<relayVars, resolverVars, monitorVars, extraVars>>

InitHook ==
    /\ hookEffect = "idle"
    /\ sockets = <<>>
    /\ wsRef = 0
    /\ reconnectTimeoutRef = 0
    /\ timers = <<>>
    /\ connected = FALSE
    /\ attempts = 0

NextHook ==
    \/ mountHook
    \/ \E s \in 1..Len(sockets) : onopen(s)
    \/ \E s \in 1..Len(sockets) : onerror(s)
    \/ \E s \in 1..Len(sockets) : onclose(s)
    \/ \E t \in 1..Len(timers) : reconnectTimeout(t)
    \/ cleanupHook

\* ======================================================================
\* CLI: MonitorScreen
\* ======================================================================
\* a forward that has not completed
Pending == [status |-> "pending", responseStatus |-> Undefined]

\* how the fetch of forwardWebhookLocally can end
ForwardOutcomes == {"ok", "notok", "throw"}

\* forwardWebhookLocally: the result it resolves with
ForwardResult(outcome) ==
    IF outcome = "ok"
    THEN [status |-> "delivered", responseStatus |-> "200"]
    ELSE IF outcome = "notok"
    THEN [status |-> "failed", responseStatus |-> "500"]
    ELSE [status |-> "failed", responseStatus |-> Undefined]

\* variant: the ids read from the newest message instead of the closure's
DeliveryReportOfNewest(webhookMsg, result) ==
    [type |-> "delivery-report",
     eventId |-> received[Len(received)].eventId,
     deliveryId |-> received[Len(received)].deliveryId,
     status |-> result.status,
     responseStatus |-> result.responseStatus]

\* the report the .then callback builds from its own webhookMsg and result
DeliveryReport(webhookMsg, result) ==
    [type |-> "delivery-report",
     eventId |-> webhookMsg.eventId,
     deliveryId |-> webhookMsg.deliveryId,
     status |-> result.status,
     responseStatus |-> result.responseStatus]

\* mach.id of the machine MonitorScreen runs for, and the id of another
\* machine of the endpoint
MachId == MachineIdOf(1)
OtherMachId == MachineIdOf(2)

\* frames the relay puts on a machine socket: the next webhook message, a
\* delivery-result of another machine for an event received here or for one
\* never received, and frames that are no server message
MonitorFrames ==
    {[type |-> "webhook", eventId |-> EventIdOf(Len(received) + 1),
      deliveryId |-> DeliveryIdOf(Len(received) + 1)]}
    \cup {[type |-> "delivery-result", eventId |-> e, deliveryId |-> "d?",
           machineId |-> OtherMachId, status |-> st] :
             e \in {received[i].eventId : i \in 1..Len(received)} \cup {"e?"},
             st \in ReportStatuses}
    \cup {[type |-> t] : t \in {"binary", "badjson"}}

\* variant: a delivery-result handled like a webhook message
StartsForwardOnResult(frame) == frame.type \in {"webhook", "delivery-result"}

\* parsed.type === "webhook": the branch that calls forwardWebhookLocally
StartsForward(frame) == frame.type = "webhook"

\* an event of the events state without deliveryResult
NoResult == [machineId |-> Undefined, status |-> Undefined]

\* setEvents of the .then callback: the result of this machine's own forward
\* on the event with that delivery id
OwnResult(evts, webhookMsg, result) ==
    [i \in 1..Len(evts) |->
        IF evts[i].deliveryId = webhookMsg.deliveryId
        THEN [evts[i] EXCEPT !.deliveryResult =
                 [machineId |-> MachId, status |-> result.status]]
        ELSE evts[i]]

\* setEvents of the delivery-result branch: another machine's result on the
\* events of that event id that have no result yet
ObservedResult(evts, resultMsg) ==
    [i \in 1..Len(evts) |->
        IF evts[i].eventId = resultMsg.eventId
              /\ evts[i].deliveryResult = NoResult
        THEN [evts[i] EXCEPT !.deliveryResult =
                 [machineId |-> resultMsg.machineId,
                  status |-> resultMsg.status]]
        ELSE evts[i]]

\* the effect: new WebSocket(wsUrl, ...), listeners attached
mountMonitor ==
    /\ monitorEffect = "idle"
    /\ monitorEffect' = "mounted"
    /\ monitorWs' = "connecting"
    /\ monitorSockets' = monitorSockets + 1
    /\ UNCHANGED <<monitorOpened, monitorConnected, wsStatus, received,
                   results, forwarded, reports, persisted, events>>
    /\ UNCHANGED <<relayVars, resolverVars, hookVars, extraVars>>

\* "open" listener
monitorOpen ==
    /\ monitorWs = "connecting"
    /\ monitorWs' = "open"
    /\ monitorOpened' = TRUE
    /\ monitorConnected' = TRUE
    /\ wsStatus' = "connected"
    /\ UNCHANGED <<monitorEffect, monitorSockets, received, results, forwarded,
                   reports, persisted, events>>
    /\ UNCHANGED <<relayVars, resolverVars, hookVars, extraVars>>

\* "message" listener: a webhook message is put in front of events and
\* starts forwardWebhookLocally; a delivery-result only updates events;
\* binary data and unparsable text are ignored
monitorMessage(frame) ==
    /\ monitorWs = "open"
    /\ IF StartsForward(frame)
       THEN /\ Len(received) < MaxWebhooks
            /\ received' = Append(received, frame)
            /\ results' = Append(results, Pending)
            /\ events' = <<[eventId |-> frame.eventId,
                            deliveryId |-> frame.deliveryId,
                            deliveryResult |-> NoResult]>> \o events
            /\ forwarded' = Append(forwarded,
                               [eventId |-> frame.eventId,
                                deliveryId |-> frame.deliveryId])
       ELSE IF frame.type = "delivery-result"
       THEN /\ events' = ObservedResult(events, frame)
            /\ UNCHANGED <<received, results, forwarded>>
       ELSE UNCHANGED <<received, results, forwarded, events>>
    /\ UNCHANGED <<monitorEffect, monitorWs, monitorSockets, monitorOpened,
                   monitorConnected, wsStatus, reports, persisted>>
    /\ UNCHANGED <<relayVars, resolverVars, hookVars, extraVars>>

\* forwardWebhookLocally of message i resolves and its .then callback runs:
\* ws.send(report) inside try/catch, then reportDeliveryResult
forwardDone(i, outcome) ==
    /\ results[i] = Pending
    /\ LET result == ForwardResult(outcome)
           report == DeliveryReport(received[i], result)
       IN /\ results' = [results EXCEPT ![i] = result]
          /\ reports' = Append(reports, report)
          /\ persisted' = Append(persisted,
                             [deliveryId |-> received[i].deliveryId,
                              status |-> result.status])
          /\ events' = OwnResult(events, received[i], result)
    /\ UNCHANGED <<monitorEffect, monitorWs, monitorSockets, monitorOpened,
                   monitorConnected, wsStatus, received, forwarded>>
    /\ UNCHANGED <<relayVars, resolverVars, hookVars, extraVars>>

\* "error" listener; the runtime closes the socket after it
monitorError ==
    /\ monitorWs \in {"connecting", "open"}
    /\ monitorWs' = "closing"
    /\ wsStatus' = "connection error"
    /\ UNCHANGED <<monitorEffect, monitorSockets, monitorOpened,
                   monitorConnected, received, results, forwarded, reports,
                   persisted, events>>
    /\ UNCHANGED <<relayVars, resolverVars, hookVars, extraVars>>

\* "close" listener
monitorClose ==
    /\ monitorWs \in {"open", "closing"}
    /\ monitorWs' = "closed"
    /\ monitorConnected' = FALSE
    /\ wsStatus' = "disconnected"
    /\ UNCHANGED <<monitorEffect, monitorSockets, monitorOpened, received,
                   results, forwarded, reports, persisted, events>>
    /\ UNCHANGED <<relayVars, resolverVars, hookVars, extraVars>>

\* the effect's cleanup: ws.close()
cleanupMonitor ==
    /\ monitorEffect = "mounted"
    /\ monitorEffect' = "cleaned"
    /\ monitorWs' = IF monitorWs \in {"connecting", "open"}
                    THEN "closing" ELSE monitorWs
    /\ UNCHANGED <<monitorSockets, monitorOpened, monitorConnected, wsStatus,
                   received, results, forwarded, reports, persisted, events>>
    /\ UNCHANGED <<relayVars, resolverVars, hookVars, extraVars>>

InitMonitor ==
    /\ monitorEffect = "idle"
    /\ monitorWs = "none"
    /\ monitorSockets = 0
    /\ monitorOpened = FALSE
    /\ monitorConnected = FALSE
    /\ wsStatus = "connecting..."
    /\ received = <<>>
    /\ results = <<>>
    /\ forwarded = <<>>
    /\ reports = <<>>
    /\ persisted = <<>>
    /\ events = <<>>

NextMonitor ==
    \/ mountMonitor
    \/ monitorOpen
    \/ \E frame \in MonitorFrames : monitorMessage(frame)
    \/ \E i \in 1..Len(received), outcome \in ForwardOutcomes :
          forwardDone(i, outcome)
    \/ monitorError
    \/ monitorClose
    \/ cleanupMonitor

\* what the runtimes are bound to do: deliver the close event of a socket
\* that is closing, and run a timeout that is pending
ClientFairness ==
    /\ WF_vars(\E s \in 1..Len(sockets) : sockets[s] = "closing" /\ onclose(s))
    /\ WF_vars(\E t \in 1..Len(timers) : reconnectTimeout(t))
    /\ WF_vars(monitorWs = "closing" /\ monitorClose)

\* ======================================================================
\* Properties
\* ======================================================================
Sockets == 1..Len(attachment)

Machines == getMachineWebSockets(webSockets, attachment)

Viewers == getViewerWebSockets(webSockets, attachment)

\* indices of the messages of a given type in a socket's log
Of(log, type) == {i \in 1..Len(log) : log[i].type = type}

WebhooksFor(log, eventId) ==
    {i \in Of(log, "webhook") : log[i].eventId = eventId}

StatusCount(log, machineId, status) ==
    Cardinality({i \in Of(log, "machine-status") :
                    log[i].machineId = machineId /\ log[i].status = status})

\* the Worker's POST /broadcast request for payload is answered in this step
BroadcastStep(payload) == payload \in pending /\ payload \notin pending'

\* a close or error callback for socket ws runs in this step
CallbackStep(ws) ==
    \/ ws \notin closed /\ ws \in closed'
    \/ ws \notin errored /\ ws \in errored'

\* ---------------------------------------------------------------- C1
\* C1: the fan-out of a broadcast request sends one webhook message on a held
\* machine socket iff the socket's machine id is a key of the deliveries map;
\* the message carries the event id and the delivery id the map assigns to
\* that machine id; every other socket (machines absent from the map,
\* viewers) gets nothing.
C1_FanOutTargeting ==
    [][\A payload \in pending :
          BroadcastStep(payload) =>
             \A s \in Sockets :
                sent'[s] =
                   IF /\ s \in Machines
                      /\ attachment[s].machineId \in DOMAIN payload.deliveries
                   THEN Append(sent[s],
                           [type |-> "webhook", eventId |-> payload.eventId,
                            deliveryId |->
                               payload.deliveries[attachment[s].machineId],
                            method |-> payload.method])
                   ELSE sent[s]]_vars

\* a broadcast answered while two machine sockets were held, of which exactly
\* one had its machine id in the map and got the webhook message
C1_Witness ==
    \E r \in responses :
       /\ r.sent = 2
       /\ Cardinality({s \in Machines : WebhooksFor(sent[s], r.eventId) # {}}) = 1
       /\ \E s \in Machines :
             /\ WebhooksFor(sent[s], r.eventId) = {}
             /\ \A d \in delivery :
                   d.eventId = r.eventId => d.machineId # attachment[s].machineId

\* ---------------------------------------------------------------- C5
\* C5: a delivery-report received on held machine socket R appends exactly
\* one delivery-result to the log of every held viewer and of every held
\* machine socket other than R, and nothing to R.
C5_ResultFanOut ==
    [][\A R \in Machines : \A frame \in Reports(R) :
          webSocketMessage(R, frame) =>
             \A s \in Sockets :
                IF s \in (Viewers \cup Machines) \ {R}
                THEN /\ Len(sent'[s]) = Len(sent[s]) + 1
                     /\ SubSeq(sent'[s], 1, Len(sent[s])) = sent[s]
                     /\ sent'[s][Len(sent'[s])].type = "delivery-result"
                ELSE sent'[s] = sent[s]]_vars

\* a report was relayed to a viewer and to another machine while the
\* reporter, still held, got no delivery-result
C5_Witness ==
    /\ nReports = 1
    /\ \E v \in Viewers : Of(sent[v], "delivery-result") # {}
    /\ \E m1, m2 \in Machines :
          /\ Of(sent[m1], "delivery-result") # {}
          /\ Of(sent[m2], "delivery-result") = {}

\* ---------------------------------------------------------------- C6
\* C6: the delivery-result a viewer gets for a report on machine socket R
\* carries the report's eventId, deliveryId, status and responseStatus
\* unchanged and the machine id and name attached to R at upgrade ("" for a
\* connection upgraded without a name), for ids the actor issued in a webhook
\* message and for ids it never issued alike.
C6_RoundTrip ==
    [][\A R \in Machines : \A frame \in Reports(R) :
          webSocketMessage(R, frame) =>
             \A v \in Viewers :
                LET result == sent'[v][Len(sent'[v])]
                IN /\ result.eventId = frame.eventId
                   /\ result.deliveryId = frame.deliveryId
                   /\ result.status = frame.status
                   /\ result.responseStatus = frame.responseStatus
                   /\ result.machineId = attachment[R].machineId
                   /\ result.machineName =
                         IF attachment[R].machineName = Undefined THEN ""
                         ELSE attachment[R].machineName]_vars

\* a viewer holds a delivery-result whose ids are those of a webhook message
\* issued to a machine socket of the same machine id
C6_Witness ==
    \E v \in Viewers : \E i \in Of(sent[v], "delivery-result") :
       \E m \in Sockets : \E j \in Of(sent[m], "webhook") :
          /\ sent[m][j].eventId = sent[v][i].eventId
          /\ sent[m][j].deliveryId = sent[v][i].deliveryId
          /\ attachment[m].machineId = sent[v][i].machineId
          /\ sent[v][i].status = "delivered"

\* ---------------------------------------------------------------- C7
\* C7: the count in the response of a broadcast equals the number of machine
\* sockets the fan-out sent the event's webhook message on.
C7_SentCount ==
    \A r \in responses :
       r.sent = Cardinality({s \in Sockets : WebhooksFor(sent[s], r.eventId) # {}})

\* ---------------------------------------------------------------- C2
\* C2: whichever of the close and error callbacks run for a machine socket,
\* each held viewer gets exactly one offline message for it: the first
\* callback appends one, a second callback for the same socket appends none.
C2_OfflineExactlyOnce ==
    [][\A ws \in Sockets :
          (CallbackStep(ws) /\ attachment[ws].role = "machine") =>
             \A v \in Viewers :
                sent'[v] =
                   IF ws \in closed \cup errored THEN sent[v]
                   ELSE Append(sent[v],
                           MachineStatusMessage(attachment[ws].machineId,
                               Coalesce(attachment[ws].machineName, ""),
                               "offline"))]_vars

\* ---------------------------------------------------------------- C3
\* C3: for every viewer socket and machine id, online messages minus offline
\* messages sent to the viewer is at least 0 and at most the number of
\* connections ever made under that machine id.
C3_PresenceBalance ==
    \A v \in Sockets :
       attachment[v].role = "viewer" =>
          \A mid \in MachineIds :
             LET balance == StatusCount(sent[v], mid, "online")
                              - StatusCount(sent[v], mid, "offline")
                 connects == Cardinality({s \in Sockets :
                                 /\ attachment[s].role = "machine"
                                 /\ attachment[s].machineId = mid})
             IN balance >= 0 /\ balance <= connects

\* ---------------------------------------------------------------- C4
ViewerJoinStep ==
    /\ Len(attachment') = Len(attachment) + 1
    /\ attachment'[Len(attachment')].role = "viewer"

MachineJoinStep ==
    /\ Len(attachment') = Len(attachment) + 1
    /\ attachment'[Len(attachment')].role = "machine"

OnlineCount(log) ==
    Cardinality({i \in Of(log, "machine-status") : log[i].status = "online"})

\* C4: a viewer joining while N machine sockets are held starts its log with
\* exactly N online messages, one per held machine socket, and the number of
\* online messages in a viewer's log changes only when a machine connects.
C4_LateJoinerSnapshot ==
    [][/\ ViewerJoinStep =>
             LET log == sent'[Len(attachment')]
             IN /\ Len(log) = Cardinality(Machines)
                /\ \A i \in 1..Len(log) :
                      log[i].type = "machine-status" /\ log[i].status = "online"
                /\ \A mid \in MachineIds :
                      StatusCount(log, mid, "online") =
                         Cardinality({m \in Machines :
                                         attachment[m].machineId = mid})
       /\ ~MachineJoinStep =>
             \A v \in Sockets :
                attachment[v].role = "viewer" =>
                   OnlineCount(sent'[v]) = OnlineCount(sent[v])]_vars

\* ---------------------------------------------------------------- C8
\* C8: every webhook message sent on a machine socket, and every delivery id
\* of a broadcast request still on its way to the actor, names a Delivery row
\* of the store for that event and that machine (pending while the request is
\* on its way), and no delivery id belongs to two (event, machine) pairs.
C8_MintedBeforeFanOut ==
    /\ \A payload \in pending : \A mid \in DOMAIN payload.deliveries :
          [id |-> payload.deliveries[mid], eventId |-> payload.eventId,
           machineId |-> mid, status |-> "pending"] \in delivery
    /\ \A s \in Sockets : \A i \in Of(sent[s], "webhook") :
          \E d \in delivery :
             /\ d.id = sent[s][i].deliveryId
             /\ d.eventId = sent[s][i].eventId
             /\ d.machineId = attachment[s].machineId
    /\ \A d1, d2 \in delivery :
          d1.id = d2.id => d1.eventId = d2.eventId /\ d1.machineId = d2.machineId

\* one machine socket got the webhook messages of two events, with two
\* different delivery ids
C8_Witness ==
    \E s \in Sockets : \E i, j \in Of(sent[s], "webhook") :
       /\ sent[s][i].eventId # sent[s][j].eventId
       /\ sent[s][i].deliveryId # sent[s][j].deliveryId

\* ---------------------------------------------------------------- C9
\* C9 (as stated): a socket whose close/error callback has run was already
\* out of the registry when that callback's offline broadcast read it, and is
\* out of the registry afterwards.
C9_RemovedBeforeOfflineBroadcast ==
    \A s \in closed \cup errored : s \notin heldAtOffline /\ s \notin webSockets

\* C9 (amended): the callback of a machine socket runs its offline broadcast
\* while the socket is still held and removes the entry before it returns;
\* from the callback on the socket is not in the registry and nothing is
\* sent on it, neither by that offline broadcast nor by any later handler.
C9_RemovedOnCallback ==
    [][\A s \in closed' \cup errored' :
          /\ s \notin webSockets'
          /\ sent'[s] = sent[s]
          /\ (CallbackStep(s) /\ s \in Machines) => s \in heldAtOffline']_vars

\* a machine socket was disconnected and a later fan-out reached another
\* socket of the same machine id but not the disconnected one
C9_Witness ==
    \E s \in (closed \cup errored) \cap heldAtOffline :
       \E t \in Machines : \E r \in responses :
          /\ attachment[t].machineId = attachment[s].machineId
          /\ t < s
          /\ WebhooksFor(sent[t], r.eventId) # {}
          /\ WebhooksFor(sent[s], r.eventId) = {}

\* ---------------------------------------------------------------- C10
\* C10: when the close callback runs for the only held socket of machine M,
\* every held viewer gets one more message, machine-status offline for M, and
\* afterwards neither the registry nor getConnectedMachines lists M.
C10_MachineDisconnect ==
    [][\A ws \in Machines :
          (/\ ws \notin closed /\ ws \in closed'
           /\ \A t \in Machines \ {ws} :
                 attachment[t].machineId # attachment[ws].machineId) =>
             /\ \A v \in Viewers :
                   /\ Len(sent'[v]) = Len(sent[v]) + 1
                   /\ SubSeq(sent'[v], 1, Len(sent[v])) = sent[v]
                   /\ sent'[v][Len(sent'[v])].type = "machine-status"
                   /\ sent'[v][Len(sent'[v])].machineId = attachment[ws].machineId
                   /\ sent'[v][Len(sent'[v])].status = "offline"
             /\ \A t \in webSockets' :
                   attachment'[t].machineId # attachment[ws].machineId
             /\ \A c \in getConnectedMachines(webSockets', attachment') :
                   c.machineId # attachment[ws].machineId]_vars

\* a machine's only socket was closed: a held viewer's last message is the
\* offline status of that machine and no held socket carries its id
C10_Witness ==
    \E s \in closed \ errored : \E v \in Viewers :
       /\ attachment[s].role = "machine"
       /\ Len(sent[v]) > 0
       /\ sent[v][Len(sent[v])] =
             MachineStatusMessage(attachment[s].machineId,
                 Coalesce(attachment[s].machineName, ""), "offline")
       /\ \A t \in webSockets : attachment[t].machineId # attachment[s].machineId

\* ---------------------------------------------------------------- C11
\* C11: when the actor accepts a machine socket whose attachment carries a
\* machine id M and a name N, every viewer held at that moment gets exactly
\* one more message, machine-status {machineId M, machineName N, online}.
C11_MachineConnect ==
    [][MachineJoinStep =>
          LET att == attachment'[Len(attachment')]
          IN (Truthy(att.machineId) /\ Truthy(att.machineName)) =>
                \A v \in Viewers :
                   sent'[v] = Append(sent[v],
                                 [type |-> "machine-status",
                                  machineId |-> att.machineId,
                                  machineName |-> att.machineName,
                                  status |-> "online"])]_vars

\* two viewers were held when a named machine joined: the only message of
\* each is the online status of that machine
C11_Witness ==
    \E v1, v2 \in Viewers : \E m \in Machines :
       /\ v1 < v2 /\ v2 < m
       /\ Truthy(attachment[m].machineName)
       /\ sent[v1] = <<MachineStatusMessage(attachment[m].machineId,
                                            attachment[m].machineName, "online")>>
       /\ sent[v2] = sent[v1]

\* ---------------------------------------------------------------- C12
\* a frame carrying every field of a delivery report
WellFormedReport(frame) ==
    /\ IsDeliveryReport(frame)
    /\ frame.eventId # Undefined
    /\ frame.deliveryId # Undefined
    /\ frame.status # Undefined

\* C12: a frame that is not a string, not JSON, JSON null, JSON of another
\* shape or a delivery-report object without its fields makes the handler
\* send nothing, raise nothing and leave the registry, the sender included,
\* as it was.
C12_MalformedDropped ==
    [][\A ws \in webSockets : \A frame \in Frames(ws) :
          (~WellFormedReport(frame) /\ webSocketMessage(ws, frame)) =>
             /\ sent' = sent
             /\ thrown' = thrown
             /\ webSockets' = webSockets
             /\ attachment' = attachment]_vars

\* ---------------------------------------------------------------- C13
\* the sockets a step's send loops address
FanOutTargets(payload) ==
    {s \in Machines : attachment[s].machineId \in DOMAIN payload.deliveries}

\* C13: when a webhook fan-out, an online or offline presence broadcast or a
\* delivery-result broadcast addresses a socket whose send throws, every
\* other addressed socket still gets its message, the fan-out still answers
\* its caller, no handler ends in an exception and the socket whose send
\* threw stays in the registry.
C13_SendFailureIsolation ==
    [][/\ \A payload \in pending :
             (BroadcastStep(payload) /\ FanOutTargets(payload) \cap dead # {}) =>
                /\ \A s \in FanOutTargets(payload) :
                      Len(sent'[s]) = Len(sent[s]) + 1
                /\ \E r \in responses' : r.eventId = payload.eventId
                /\ thrown' = thrown
                /\ FanOutTargets(payload) \cap dead \subseteq webSockets'
       /\ (/\ MachineJoinStep
           /\ AnnouncesOnline(attachment'[Len(attachment')])
           /\ Viewers \cap dead # {}) =>
                /\ \A v \in Viewers : Len(sent'[v]) = Len(sent[v]) + 1
                /\ thrown' = thrown
                /\ Len(attachment') \in webSockets'
                /\ Viewers \cap dead \subseteq webSockets'
       /\ \A ws \in Machines :
             (/\ CallbackStep(ws)
              /\ AnnouncesOffline(attachment[ws])
              /\ Viewers \cap dead # {}) =>
                /\ \A v \in Viewers : Len(sent'[v]) = Len(sent[v]) + 1
                /\ thrown' = thrown
                /\ Viewers \cap dead \subseteq webSockets'
       /\ \A R \in webSockets : \A frame \in Reports(R) :
             (/\ webSocketMessage(R, frame)
              /\ ((Viewers \cup Machines) \ {R}) \cap dead # {}) =>
                /\ \A s \in (Viewers \cup Machines) \ {R} :
                      Len(sent'[s]) = Len(sent[s]) + 1
                /\ thrown' = thrown
                /\ dead \subseteq webSockets']_vars

\* a send on a held socket threw into its catch block and the same broadcast
\* reached a socket later in the loop
C13_Witness ==
    \E d \in caught \cap webSockets : \E t \in webSockets :
       /\ d < t
       /\ attachment[d].role = attachment[t].role
       /\ Len(sent[d]) > 0
       /\ sent[t] = sent[d]


\* ---------------------------------------------------------------- C14
\* name is baseName or baseName-N
Matches(name, baseName) ==
    \/ name = baseName
    \/ \E n \in 0..(MaxMachines + 1) : name = baseName \o "-" \o ToString(n)

MatchingRows(baseName) ==
    {i \in 1..Len(machine) : Matches(machine[i].name, baseName)}

\* C14: however client processes of one base name start, connect, end and
\* start again, the store never holds more records matching that name than
\* the most processes of that name that were alive at the same time.
C14_BoundedIdentities ==
    \A b \in BaseNames : Cardinality(MatchingRows(b)) <= maxLive[b]

\* ---------------------------------------------------------------- C15
\* index of the first offline record matching baseName, 0 when there is none
FirstOfflineMatch(baseName) ==
    LET offline == {i \in MatchingRows(baseName) : machine[i].status = "offline"}
    IN IF offline = {} THEN 0
       ELSE CHOOSE i \in offline : \A j \in offline : i <= j

\* process p gets the machine list in this step
ListStep(p) == proc[p].pc = "stopped" /\ proc'[p].pc = "listed"

\* findOrCreateMachine of process p returns in this step
ResolveStep(p) == proc[p].pc = "listed" /\ proc'[p].pc = "resolved"

\* C15: when the list the resolver gets holds an offline record matching its
\* base name, it settles on the first such record; it then returns that
\* record's id, the store gets no new record, the record's forward URL is
\* written only when it differed from the requested one (and is then the
\* requested one), and every other field and record stays as it was.
C15_IdentityReuse ==
    [][\A p \in ProcIds :
          /\ (ListStep(p) /\ FirstOfflineMatch(proc'[p].baseName) # 0) =>
                LET row == machine[FirstOfflineMatch(proc'[p].baseName)]
                    request == proc'[p].request
                IN /\ request.id = row.id
                   /\ request.op = IF row.forwardUrl # request.forwardUrl
                                   THEN "update" ELSE "reuse"
          /\ (ResolveStep(p) /\ proc[p].request.op \in {"reuse", "update"}) =>
                LET request == proc[p].request
                IN /\ proc'[p].machineId = request.id
                   /\ Len(machine') = Len(machine)
                   /\ \A i \in 1..Len(machine) :
                         machine'[i] =
                            IF machine[i].id = request.id /\ request.op = "update"
                            THEN [machine[i] EXCEPT
                                    !.forwardUrl = request.forwardUrl]
                            ELSE machine[i]]_vars

\* a process started again with another forward URL: the one record of the
\* store, registered by its earlier run and never connected, was reused and
\* its forward URL rewritten (the two effectful calls were register and update)
C15_Witness ==
    \E p \in ProcIds :
       /\ proc[p].pc = "resolved"
       /\ Len(machine) = 1
       /\ proc[p].machineId = machine[1].id
       /\ machine[1].status = "offline"
       /\ machine[1].forwardUrl = "u2"
       /\ attachment = <<>>
       /\ nSteps = 2

\* ---------------------------------------------------------------- C16
\* the claim's pattern for every count
SuffixedName(baseName, count) == baseName \o "-" \o ToString(count + 1)

\* the bare base name for the first record, the pattern from the second on
FirstBareThenSuffixed(baseName, count) ==
    IF count = 0 THEN baseName ELSE SuffixedName(baseName, count)

\* when the list holds no offline record matching the base name, the
\* resolver settles on registering NameFor(base, number of matching records);
\* it then adds exactly that one record, offline, with the requested forward
\* URL and a fresh id, returns it and leaves every existing record as it was
Minting(NameFor(_, _)) ==
    \A p \in ProcIds :
       /\ (ListStep(p) /\ FirstOfflineMatch(proc'[p].baseName) = 0) =>
             /\ proc'[p].request.op = "register"
             /\ proc'[p].request.name =
                   NameFor(proc'[p].baseName,
                           Cardinality(MatchingRows(proc'[p].baseName)))
       /\ (ResolveStep(p) /\ proc[p].request.op = "register") =>
             /\ Len(machine') = Len(machine) + 1
             /\ SubSeq(machine', 1, Len(machine)) = machine
             /\ machine'[Len(machine')].id \notin MachineIds
             /\ machine'[Len(machine')].name = proc[p].request.name
             /\ machine'[Len(machine')].forwardUrl = proc[p].request.forwardUrl
             /\ machine'[Len(machine')].status = "offline"
             /\ proc'[p].machineId = machine'[Len(machine')].id

\* C16 (as stated): with every matching record online the resolver registers
\* exactly one new record named base-(count+1), count the number of matching
\* records, and reuses none.
C16_MintAlwaysSuffixed == [][Minting(SuffixedName)]_vars

\* C16 (amended): with every matching record online the resolver registers
\* exactly one new record and reuses none; the record is named base-(count+1)
\* when count >= 1 records match and plainly base when none does.
C16_IdentityMinting == [][Minting(FirstBareThenSuffixed)]_vars

\* a process holds the record base-2, minted while the one matching record
\* was online
C16_Witness ==
    \E p \in ProcIds : \E i, j \in 1..Len(machine) :
       /\ proc[p].pc \in {"resolved", "connected"}
       /\ machine[j].name = proc[p].baseName
       /\ machine[j].status = "online"
       /\ machine[i].name = proc[p].baseName \o "-2"
       /\ proc[p].machineId = machine[i].id

\* the delay, in milliseconds, that doubling from one second with a cap of
\* thirty seconds gives before consecutive attempt number k
ExpectedDelay(k) == IF 2 ^ (k - 1) < 30 THEN 2 ^ (k - 1) * 1000 ELSE 30000

\* C17: the delay before the k-th consecutive failed reconnect attempt is
\* min(2^(k-1), 30) seconds, and it is back at one second once the client
\* has reached the connected state (attempts is 0 again after onopen).
C17_ReconnectBackoff ==
    \A t \in 1..Len(timers) :
        timers[t].delay = ExpectedDelay(timers[t].attempt)

\* a viewer hook that is still mounted and whose last socket has closed
ViewerClosed(n) ==
    /\ hookEffect = "mounted"
    /\ Len(sockets) = n
    /\ sockets[n] = "closed"

\* a monitor that was connected, saw its socket close and is still mounted
MonitorClosed ==
    /\ monitorEffect = "mounted"
    /\ monitorOpened
    /\ monitorWs = "closed"

\* C18 (viewer half): a mounted viewer hook whose socket closed makes a new
\* connection attempt unless it is cleaned up first.
ViewerReconnects ==
    \A n \in 1..(MaxAttempts - 1) :
        ViewerClosed(n) ~> (Len(sockets) > n \/ hookEffect = "cleaned")

\* C18: whenever a client, machine or viewer, that was connected observes
\* its socket close or error and has not been shut down, a reconnect
\* attempt is eventually made.
C18_ReconnectLiveness ==
    /\ ViewerReconnects
    /\ MonitorClosed ~> (monitorSockets > 1 \/ monitorEffect = "cleaned")

\* no timeout set by the hook is waiting to run
NoPendingTimer == \A t \in 1..Len(timers) : timers[t].state # "pending"

\* C19: once the viewer hook's cleanup has run no reconnect timer is pending
\* and no further WebSocket is created, whatever the order of the cleanup
\* and the socket's close and error events.
C19_ShutdownCancelsReconnect ==
    [][hookEffect' = "cleaned" =>
          /\ NoPendingTimer'
          /\ (hookEffect = "cleaned" => Len(sockets') = Len(sockets))]_vars

\* the ids of a webhook message or of a report
IdsOf(m) == [eventId |-> m.eventId, deliveryId |-> m.deliveryId]

\* the positions in reports of the reports that carry the ids of message i
ReportsOf(i) ==
    {r \in 1..Len(reports) : IdsOf(reports[r]) = IdsOf(received[i])}

\* C20: each webhook message received gets exactly one local forward, with
\* its ids; no ws.send of a delivery-report before its forward has completed
\* and exactly one after; the report carries the ids of the message and the
\* status and response status of that message's own forward, in whatever
\* order overlapping forwards complete.
C20_ForwardThenReport ==
    /\ Len(forwarded) = Len(received)
    /\ Len(results) = Len(received)
    /\ \A i \in 1..Len(received) :
          /\ forwarded[i] = IdsOf(received[i])
          /\ Cardinality(ReportsOf(i)) = IF results[i] = Pending THEN 0 ELSE 1
          /\ \A r \in ReportsOf(i) :
                /\ reports[r].type = "delivery-report"
                /\ reports[r].status = results[i].status
                /\ reports[r].responseStatus = results[i].responseStatus
    /\ \A r \in 1..Len(reports) : \E i \in 1..Len(received) : r \in ReportsOf(i)

\* two forwards overlapped, the second completed first, with another result
C20_Witness ==
    /\ Len(received) = 2
    /\ Len(reports) = 2
    /\ IdsOf(reports[1]) = IdsOf(received[2])
    /\ IdsOf(reports[2]) = IdsOf(received[1])
    /\ reports[1].status # reports[2].status

\* the message listener handles a delivery-result in this step
ResultObserved ==
    \E frame \in MonitorFrames :
       frame.type = "delivery-result" /\ monitorMessage(frame)

\* C21: a delivery-result received by a machine client starts no local
\* forward and causes no delivery-report (nor a durable report): the step
\* that handles it leaves the forwards, the reports and the received webhook
\* messages as they were, and the forwards made are as many as the webhook
\* messages received.
C21_ResultsObservationOnly ==
    [][/\ ResultObserved =>
             UNCHANGED <<forwarded, reports, persisted, received, results>>
       /\ Len(forwarded') = Len(received')]_vars

\* another machine's result is shown on an event this client received and
\* forwarded once
C21_Witness ==
    /\ Len(received) = 1
    /\ Len(forwarded) = 1
    /\ Len(events) = 1
    /\ events[1].deliveryResult.machineId = OtherMachId

\* the request for event number e is on its way to the actor, with a
\* delivery for the machine of held, live machine socket s
AwaitsWebhook(e, s) ==
    /\ s \in Machines \ dead
    /\ \E payload \in pending :
          /\ payload.eventId = EventIdOf(e)
          /\ attachment[s].machineId \in DOMAIN payload.deliveries

\* socket s was sent a webhook message of event number e with a delivery id
GotWebhook(e, s) ==
    /\ s \in Sockets
    /\ \E i \in WebhooksFor(sent[s], EventIdOf(e)) :
          Truthy(sent[s][i].deliveryId)

C23_DurableDeliveryStatus ==
    [][/\ \A d \in delivery, st \in ReportStatuses, rs \in ResponseStatuses :
             reportDelivery(OwnerId, d.id, st, rs) =>
                /\ \E row \in delivery' :
                      /\ row.id = d.id
                      /\ row.eventId = d.eventId
                      /\ row.machineId = d.machineId
                      /\ row.status = st
                /\ ResponseStatusOf(d.id)' = rs
                /\ \E shown \in listByEvent(OwnerId, d.eventId).rows' :
                      /\ shown.id = d.id
                      /\ shown.status = st
                      /\ shown.responseStatus = rs
       /\ \A row \in delivery' :
             row.id \notin DeliveryIds => row.status = "pending"
       /\ \A d \in delivery : \A row \in delivery' :
             (row.id = d.id /\ d.status # "pending") => row.status # "pending"]_vars

\* of two deliveries of one event one was reported failed with its response
\* status and the listing shows it next to the other, still pending
C23_Witness ==
    \E e \in EventIds :
       \E r1, r2 \in listByEvent(OwnerId, e).rows :
          /\ r1.status = "failed"
          /\ r1.responseStatus = "500"
          /\ r2.status = "pending"

\* C27: when the close or error callback runs for a viewer socket the
\* socket leaves the registry, every other entry stays, and nothing is sent
\* on any socket.
C27_ViewerDisconnectSilent ==
    [][\A ws \in Sockets :
          (CallbackStep(ws) /\ attachment[ws].role = "viewer") =>
             /\ webSockets' = webSockets \ {ws}
             /\ sent' = sent]_vars

\* a viewer was disconnected while another viewer and a machine were held
C27_Witness ==
    /\ \E ws \in closed \cup errored : attachment[ws].role = "viewer"
    /\ Viewers # {}
    /\ Machines # {}

\* C28: while no machine connection has been registered in the actor,
\* every event was captured with zero machine connections: no webhook
\* message has been sent and no Delivery record is pending.
C28_NoDanglingPending ==
    (\A s \in Sockets : attachment[s].role # "machine") =>
        /\ \A s \in Sockets : Of(sent[s], "webhook") = {}
        /\ \A d \in delivery : d.status # "pending"

\* sockets accepted while the request of event eventId was on its way
JoinedInWindow(eventId) ==
    {s \in 1..Len(joinedDuring) : eventId \in joinedDuring[s]}

\* C29 (as stated): a machine connection registered between the creation of
\* the Delivery records of an event and the event's fan-out never gets a
\* webhook message for that event.
C29_ConnectDuringCapture ==
    \A e \in EventIds : \A s \in JoinedInWindow(e) :
       WebhooksFor(sent[s], e) = {}

\* no socket gets a webhook message of an event whose fan-out has run
NoRetroactiveDelivery ==
    \A r \in responses : \A s \in 1..Len(sent') :
       WebhooksFor(sent'[s], r.eventId) =
          IF s \in Sockets THEN WebhooksFor(sent[s], r.eventId) ELSE {}

\* C29 (amended): of the machine connections registered between the
\* creation of the Delivery records of an event and its fan-out, those
\* whose machine record was registered after the Delivery records were
\* created (no entry in the map) get no webhook message for the event, those
\* whose record existed get the message with their delivery id; and once the
\* fan-out of an event has run no webhook message for it is sent any more.
C29_RegisteredDuringCapture ==
    [][/\ \A payload \in pending :
             BroadcastStep(payload) =>
                \A s \in JoinedInWindow(payload.eventId) \cap Machines :
                   sent'[s] =
                      IF attachment[s].machineId \in DOMAIN payload.deliveries
                      THEN Append(sent[s],
                              WebhookEventMessage(payload.eventId,
                                 payload.deliveries[attachment[s].machineId],
                                 payload.method))
                      ELSE sent[s]
       /\ NoRetroactiveDelivery]_vars

\* a machine registered and connected in the window of an event is still
\* held after the event's fan-out and has no webhook message for it, while a
\* machine that only connected in the window has one
C29_Witness ==
    \E r \in responses : \E s, t \in JoinedInWindow(r.eventId) \cap Machines :
       /\ WebhooksFor(sent[s], r.eventId) = {}
       /\ \A d \in delivery :
             d.eventId = r.eventId => d.machineId # attachment[s].machineId
       /\ WebhooksFor(sent[t], r.eventId) # {}

\* C30: the registry holds exactly the accepted sockets whose close or
\* error callback has not run, each once; the attachment of a socket stays
\* what the upgrade stored; and a second callback for a socket (close after
\* error or error after close) raises nothing and leaves the registry and
\* every attachment as they were.
C30_RegistryShape ==
    [][/\ webSockets = Sockets \ (closed \cup errored)
       /\ webSockets' = (1..Len(attachment')) \ (closed' \cup errored')
       /\ \A s \in Sockets : attachment'[s] = attachment[s]
       /\ \A ws \in Sockets :
             (CallbackStep(ws) /\ ws \in closed \cup errored) =>
                /\ webSockets' = webSockets
                /\ attachment' = attachment
                /\ thrown' = thrown]_vars

\* both callbacks have run for one machine socket while a viewer and
\* another machine socket are still held
C30_Witness ==
    /\ \E ws \in closed \cap errored : attachment[ws].role = "machine"
    /\ Viewers # {}
    /\ Machines # {}

RelayedLive ==
    UNION {{sent[v][i].deliveryId : i \in Of(sent[v], "delivery-result")} :
              v \in Viewers}

\* C26: a report arriving on a machine socket is relayed to every held
\* viewer whatever has become of the durable call (in flight, served, failed,
\* never made, Delivery record present or not) and the relay neither reads
\* nor writes the store; the durable write sends nothing on any socket; and
\* a machine client issues the socket report of a forward before it issues
\* the durable call for it.
C26_LiveRelayIndependent ==
    [][/\ \A R \in Machines : \A frame \in Reports(R) :
             webSocketMessage(R, frame) =>
                /\ \A v \in Viewers :
                      sent'[v] = Append(sent[v],
                                    DeliveryResultMessage(attachment[R], frame))
                /\ UNCHANGED <<delivery, deliveryResponse>>
       /\ \A ws \in 1..MaxSockets : \A k \in 1..Len(issued[ws]) :
             \A served \in BOOLEAN :
                durableWrite(ws, k, served) => UNCHANGED sent
       /\ \A ws \in 1..MaxSockets : \A k \in 1..Len(issued'[ws]) :
             issued'[ws][k].call = "reportDeliveryResult" =>
                /\ k > 1
                /\ issued'[ws][k - 1].call = "ws.send"
                /\ issued'[ws][k - 1].deliveryId = issued'[ws][k].deliveryId]_vars

\* a viewer has the delivery-result of a report whose durable call failed,
\* the Delivery record still pending
C26_Witness ==
    \E ws \in Machines : \E k \in 1..Len(issued[ws]) :
       /\ issued[ws][k].call = "reportDeliveryResult"
       /\ issued[ws][k].state = "failed"
       /\ issued[ws][k].deliveryId \in RelayedLive
       /\ issued[ws][k].deliveryId \in DeliveryIds
       /\ DeliveryRow(issued[ws][k].deliveryId).status = "pending"

\* the other completion order: the Delivery record carries the reported status
\* while the socket report of the same forward is still in flight
C26_DurableCompletesFirst ==
    \E ws \in Machines : \E k \in 1..Len(issued[ws]) :
       /\ issued[ws][k].call = "ws.send"
       /\ issued[ws][k].state = "inflight"
       /\ issued[ws][k].deliveryId \in DeliveryIds
       /\ DeliveryRow(issued[ws][k].deliveryId).status = issued[ws][k].status

\* everything the actors keep for connection c: its send log, whether it is
\* held, its attachment
Kept(objs, c) ==
    <<objs[c.object].sent[c.socket],
      c.socket \in objs[c.object].webSockets,
      objs[c.object].attachment[c.socket]>>

\* C24: every endpoint id is served by one object and no two endpoint ids by
\* the same object; and a step of any operation on one endpoint (register,
\* upgrade, capture, broadcast, delivery-report, close) leaves the send log,
\* the registry membership and the attachment of every connection
\* registered on another endpoint as they were.
C24_EndpointIsolation ==
    [][/\ \A r1 \in routed', r2 \in routed' :
             (r1.endpointId = r2.endpointId) <=> (r1.object = r2.object)
       /\ \A endpointId \in EndpointIds :
             OnEndpoint(endpointId) =>
                \A i \in 1..Len(registered) :
                   registered[i].endpointId # endpointId =>
                      Kept(objects', registered[i]) = Kept(objects, registered[i])]_vars

\* machines are connected on two endpoints, and a broadcast on one of them
\* has sent its machine a webhook message
C24_Witness ==
    \E i \in Held, j \in Held :
       /\ registered[i].endpointId # registered[j].endpointId
       /\ Of(objects[registered[i].object].sent[registered[i].socket],
             "webhook") # {}
       /\ objects[registered[j].object]
             .attachment[registered[j].socket].role = "machine"

\* ---------------------------------------------------------------- C31
\* C31: when a viewer connects, the log of every socket accepted before it
\* (viewer or machine, held or not) stays as it was: the synthetic online
\* messages appear on the new viewer's socket only.
C31_ViewerJoinPointToPoint ==
    [][ViewerJoinStep =>
          /\ \A s \in Sockets : sent'[s] = sent[s]
          /\ sent'[Len(attachment')] = SnapshotMessages(webSockets', attachment')
      ]_vars

\* the newest socket is a viewer whose log is a non-empty snapshot, accepted
\* while another viewer and a named machine were held
C31_Witness ==
    /\ Len(attachment) >= 3
    /\ attachment[Len(attachment)].role = "viewer"
    /\ Len(attachment) \in webSockets
    /\ sent[Len(attachment)] # <<>>
    /\ sent[Len(attachment)] = SnapshotMessages(webSockets, attachment)
    /\ \E v \in Viewers \ {Len(attachment)} : TRUE
    /\ \E m \in Machines : AnnouncesOnline(attachment[m])

\* ---------------------------------------------------------------- C32
\* C32: every delivery-result message the actor has sent on any socket
\* carries the non-empty machine id of a registered machine, so none stems
\* from a delivery-report received on a viewer connection.
C32_OnlyMachinesReport ==
    \A s \in Sockets : \A i \in Of(sent[s], "delivery-result") :
       /\ Truthy(sent[s][i].machineId)
       /\ sent[s][i].machineId \in MachineIds

\* ---------------------------------------------------------------- C33
\* C33: the webhook fan-out, the delivery-result broadcast and the
\* connected-machines query leave the set of held sockets and every
\* attachment as they were, also when a send throws; the online broadcast
\* of a machine's upgrade leaves every earlier entry as it was (the step
\* adds the new socket only) and the offline broadcast of a close callback
\* removes nothing but the closing socket, which it still iterated.
C33_ReadOnlyBroadcasts ==
    [][/\ \A payload \in pending :
             BroadcastStep(payload) => UNCHANGED <<webSockets, attachment>>
       /\ nReports' # nReports => UNCHANGED <<webSockets, attachment>>
       /\ getConnectedMachinesRpc =>
             /\ UNCHANGED <<webSockets, attachment>>
             /\ connectedMachines' = getConnectedMachines(webSockets', attachment')
       /\ MachineJoinStep =>
             /\ webSockets' = webSockets \cup {Len(attachment')}
             /\ \A s \in Sockets : attachment'[s] = attachment[s]
       /\ \A ws \in Sockets :
             CallbackStep(ws) =>
                /\ webSockets' = webSockets \ {ws}
                /\ attachment' = attachment]_vars

\* a broadcast request has been answered, a send threw on a dead machine
\* socket, and the socket is still held
C33_Witness ==
    \E s \in Machines :
       /\ s \in caught
       /\ s \in dead
       /\ responses # {}

\* ---------------------------------------------------------------- C34
\* C34: on every socket ever accepted, a webhook message is found only in the
\* log of a machine connection and a machine-status message only in the log
\* of a viewer connection; the only other type sent, delivery-result, goes
\* to both roles.
C34_RoleBasedRouting ==
    \A s \in Sockets : \A i \in 1..Len(sent[s]) :
       /\ sent[s][i].type \in {"webhook", "machine-status", "delivery-result"}
       /\ sent[s][i].type = "webhook" => attachment[s].role = "machine"
       /\ sent[s][i].type = "machine-status" => attachment[s].role = "viewer"

\* a machine has been sent a webhook message and a delivery-result, a viewer
\* an online message
C34_Witness ==
    /\ \E m \in Sockets :
          /\ attachment[m].role = "machine"
          /\ Of(sent[m], "webhook") # {}
    /\ \E m \in Sockets :
          /\ attachment[m].role = "machine"
          /\ Of(sent[m], "delivery-result") # {}
    /\ \E v \in Sockets :
          /\ attachment[v].role = "viewer"
          /\ Of(sent[v], "machine-status") # {}

\* ---------------------------------------------------------------- C35
\* C35: an upgrade request that registers a connection has a slug that names
\* an endpoint, a session of the endpoint's owner, role machine or viewer
\* and, for a machine, the id of a machine row of that endpoint and that
\* user, and the connection goes to that endpoint's object; a request not
\* answered 101 is answered 404, 401, 403 or 400 and leaves the machine rows
\* (their status included), the objects and the rest of store and registry
\* as they were.
C35_UpgradeGate ==
    [][\A slug \in RequestSlugs, user \in Sessions, role \in RequestRoles,
          mid \in RequestMachineIds :
          upgradeRequest(slug, user, role, mid) =>
             /\ registered' # registered =>
                   /\ upgradeResponse' = 101
                   /\ slug \in Slugs
                   /\ user # Undefined
                   /\ user = EndpointOwner(slug)
                   /\ role \in {"machine", "viewer"}
                   /\ role = "machine" =>
                         \E i \in 1..Len(epMachine) :
                            /\ epMachine[i].id = mid
                            /\ epMachine[i].endpointId = EndpointOfSlug(slug)
                            /\ epMachine[i].userId = user
                   /\ registered'[Len(registered')].endpointId
                         = EndpointOfSlug(slug)
             /\ upgradeResponse' # 101 =>
                   /\ upgradeResponse' \in {400, 401, 403, 404}
                   /\ UNCHANGED endpointVars]_vars

\* a machine is connected and online, a second machine row is still
\* offline, and the last request, made by a user who does not own the
\* endpoint, has been answered 403
C35_Witness ==
    /\ upgradeResponse = 403
    /\ Held # {}
    /\ \E i \in 1..Len(epMachine) : epMachine[i].status = "online"
    /\ \E i \in 1..Len(epMachine) : epMachine[i].status = "offline"

\* ---------------------------------------------------------------- C36
\* the POST /broadcast request of a task was issued to the actor
BroadcastIssued(task) == task.broadcast \in {"fetch-throws", "not-ok", "ok"}

\* C36: every event row belongs to an enabled endpoint and its sender has
\* been answered 202 with the event's id, whatever its deferred task has
\* come to (Delivery insert thrown, broadcast thrown or refused, static
\* forward failed); every 202 names a stored event; a task whose endpoint
\* has a forward URL goes on to the static forward after its broadcast,
\* whatever the broadcast's outcome, and is done only after attempting it;
\* a request for an unknown slug (404) or a disabled endpoint (403) stores
\* no event and starts no task, hence no broadcast.
C36_CaptureIndependent ==
    [][/\ \A row \in eventRows' :
             /\ row.slug \in {ep.slug : ep \in HookEndpoints}
             /\ HookEndpoint(row.slug).enabled
             /\ [slug |-> row.slug, status |-> 202, eventId |-> row.id]
                   \in answers'
             /\ \E task \in tasks' : task.eventId = row.id
       /\ \A a \in answers' :
             a.status = 202 => \E row \in eventRows' : row.id = a.eventId
       /\ \A task \in tasks' :
             /\ HookEndpoint(task.slug).enabled
             /\ (task.broadcast # "none"
                   /\ Truthy(HookEndpoint(task.slug).forwardUrl)) =>
                   task.stage \in {"forward", "done"}
             /\ (task.stage = "done"
                   /\ Truthy(HookEndpoint(task.slug).forwardUrl)) =>
                   task.forward # "none"
             /\ ~Truthy(HookEndpoint(task.slug).forwardUrl) =>
                   task.forward = "none"
       /\ (\E a \in answers' \ answers : a.status \in {403, 404}) =>
             UNCHANGED <<eventRows, tasks>>
       /\ \A a \in answers' :
             /\ a.status = 404 <=> a.slug \notin {ep.slug : ep \in HookEndpoints}
             /\ a.status = 403 => ~HookEndpoint(a.slug).enabled
      ]_vars

\* the broadcast of a captured event threw, its static forward was attempted
\* all the same, and the sender has its 202; another sender got a 403
C36_Witness ==
    /\ \E task \in tasks :
          /\ task.broadcast = "fetch-throws"
          /\ task.forward = "throws"
          /\ task.stage = "done"
          /\ [slug |-> task.slug, status |-> 202, eventId |-> task.eventId]
                \in answers
    /\ \E a \in answers : a.status = 403

\* ---------------------------------------------------------------- C37
\* C37: whenever the resolver registers a new machine record, the name of
\* the new record differs from the name of every record the store already
\* holds.
C37_MintedNamesFresh ==
    [][\A p \in ProcIds :
          (ResolveStep(p) /\ proc[p].request.op = "register") =>
             \A i \in 1..Len(machine) :
                machine[i].name # machine'[Len(machine')].name]_vars

\* ---------------------------------------------------------------- C38
\* C38: two client processes that are alive at the same time and have each
\* resolved a machine never hold the same machine id, so no two live
\* processes are connected under one machine identity.
C38_ConcurrentResolution ==
    \A p \in ProcIds, q \in ProcIds :
       (/\ p # q
        /\ proc[p].pc \in {"resolved", "connected"}
        /\ proc[q].pc \in {"resolved", "connected"}) =>
          proc[p].machineId # proc[q].machineId

\* ---------------------------------------------------------------- C39
\* C39: whenever the dashboard's socket is held and the dashboard has
\* processed every message sent on it, a machine id is shown online iff the
\* actor holds at least one connection with that machine id.
C39_ViewerPresenceAccurate ==
    \A v \in Viewers :
       inbox[v] = sent[v] =>
          \A mid \in MachineIds :
             mid \in MachinesShownOnline
                <=> \E m \in Machines : attachment[m].machineId = mid

\* ---------------------------------------------------------------- C40
\* C40: once a page has come with nextCursor undefined, the pages together
\* hold every event of the endpoint exactly once, in descending order of
\* creation time.
C40_PaginationComplete ==
    listDone =>
       /\ \A e \in Rows :
             Cardinality({i \in 1..Len(listed) : listed[i] = e}) = 1
       /\ \A i, j \in 1..Len(listed) :
             i < j => createdAt[listed[i]] >= createdAt[listed[j]]

InitRelay ==
    /\ machine = <<>>
    /\ delivery = {}
    /\ nEvents = 0
    /\ nDeliveries = 0
    /\ pending = {}
    /\ attachment = <<>>
    /\ webSockets = {}
    /\ sent = <<>>
    /\ closed = {}
    /\ errored = {}
    /\ nReports = 0
    /\ responses = {}
    /\ nSteps = 0
    /\ heldAtOffline = {}
    /\ dead = {}
    /\ caught = {}
    /\ thrown = {}

InitProgram ==
    InitRelay /\ InitResolver /\ InitHook /\ InitMonitor /\ InitStore
        /\ InitRace /\ InitWire /\ InitLive /\ InitEndpoints
        /\ InitRpc /\ InitGate /\ InitCapture

Init == InitProgram /\ NoListing

\* the program with an endpoint's event rows in the store and a caller
\* about to list them
InitListing == InitProgram /\ InitList

\* the relay with arbitrary clients on its sockets
Next ==
    \/ \E name \in RegisterNames, url \in RegisterUrls :
          register(name, url) /\ UNCHANGED <<clientVars, extraVars>>
    \/ \E mid \in MachineIds \cup {Undefined}, np \in NameParams :
          handleWebSocketUpgrade("machine", mid, np) /\ UNCHANGED <<clientVars, extraVars>>
    \/ handleWebSocketUpgrade("viewer", Undefined, Undefined)
          /\ UNCHANGED <<clientVars, extraVars>>
    \/ \E method \in Methods : handleWebhook(method) /\ UNCHANGED <<clientVars, extraVars>>
    \/ \E payload \in pending : handleBroadcast(payload) /\ UNCHANGED <<clientVars, extraVars>>
    \/ \E ws \in webSockets : \E frame \in Frames(ws) :
          webSocketMessage(ws, frame) /\ UNCHANGED <<clientVars, extraVars>>
    \/ \E ws \in 1..Len(attachment) : webSocketClose(ws) /\ UNCHANGED <<clientVars, extraVars>>
    \/ \E ws \in 1..Len(attachment) : webSocketError(ws) /\ UNCHANGED <<clientVars, extraVars>>
    \/ \E ws \in webSockets : socketDies(ws) /\ UNCHANGED <<clientVars, extraVars>>

Spec == Init /\ [][Next]_vars

\* variant: the deferred broadcast of a captured webhook never has to run
DeferredRunsNever == FALSE

\* c.executionCtx.waitUntil(processBroadcastAndForward(...)): the runtime
\* keeps the invocation alive until the deferred broadcast has run
DeferredRuns ==
    \E payload \in pending : handleBroadcast(payload) /\ UNCHANGED <<clientVars, extraVars>>

\* every request on its way to the actor keeps a handler invocation of the
\* behaviour's length bound for itself
Reserved == nSteps' + Cardinality(pending') <= MaxSteps

\* the handlers on the way of a webhook to a machine: registration, machine
\* connect and disconnect, capture and fan-out
NextDelivery ==
    \/ \E name \in RegisterNames, url \in RegisterUrls :
          register(name, url) /\ UNCHANGED <<clientVars, extraVars>>
    \/ \E mid \in MachineIds, np \in NameParams :
          handleWebSocketUpgrade("machine", mid, np) /\ UNCHANGED <<clientVars, extraVars>>
    \/ \E method \in Methods : handleWebhook(method) /\ UNCHANGED <<clientVars, extraVars>>
    \/ DeferredRuns
    \/ \E ws \in 1..Len(attachment) : webSocketClose(ws) /\ UNCHANGED <<clientVars, extraVars>>
    \/ \E ws \in 1..Len(attachment) : webSocketError(ws) /\ UNCHANGED <<clientVars, extraVars>>
    \/ \E ws \in webSockets : socketDies(ws) /\ UNCHANGED <<clientVars, extraVars>>

\* the relay with the deferred broadcast of every captured webhook run
FairSpec ==
    Init /\ [][NextDelivery /\ Reserved]_vars /\ WF_vars(DeferredRuns /\ Reserved)

\* the relay with CLI client processes resolving their machine identity
SpecResolver == Init /\ [][NextResolver]_vars

\* the record store under registration, capture and durable reports
SpecStore == Init /\ [][NextStore]_vars

\* registration, machine connects, capture and fan-out, with the events on
\* their way noted at each connect
SpecRace == Init /\ [][NextRace]_vars

\* the relay with the client ends of its sockets
SpecWire == Init /\ [][NextWire]_vars

\* two endpoints, their objects and the Worker's routing
SpecEndpoints == Init /\ [][NextEndpoints]_vars

\* the relay's broadcasts and the Worker's identity query
SpecReadOnly == Init /\ [][NextReadOnly]_vars

\* the Worker's gate in front of the endpoints' objects
SpecGate == Init /\ [][NextGate]_vars

\* webhook capture and its deferred processing
SpecCapture == Init /\ [][NextCapture]_vars

\* the resolver of one CLI process at a time next to the dashboard
SpecMint == Init /\ [][NextMint]_vars

\* the relay with one dashboard that keeps its machines map
SpecPresence == Init /\ [][NextPresence]_vars

\* events.list called page by page over a fixed set of event rows
SpecList == InitListing /\ [][NextList]_vars

\* the relay and the store with machine clients reporting on both paths
SpecLive == Init /\ [][NextLive]_vars

\* the dashboard's viewer hook against an arbitrary server
SpecHook == Init /\ [][NextHook]_vars

\* the CLI's MonitorScreen against an arbitrary server
SpecMonitor == Init /\ [][NextMonitor]_vars

\* both clients, with the event delivery their runtimes guarantee
FairSpecClients == Init /\ [][NextHook \/ NextMonitor]_vars /\ ClientFairness
====
